---- MODULE Spec2Model ----
(***************************************************************************)
(* Model of robotidy's disabler engine (src/robotidy/disablers.py):        *)
(* RegisterDisablers walks a parsed Robot Framework File, keeps a stack of *)
(* scope frames with the pending "# robotidy: off" lines, and fills a      *)
(* DisablersInFile registry that the transformers query afterwards.        *)
(*                                                                         *)
(* A File is represented line by line.  Line i of the sequence is the      *)
(* statement that starts at line i (or a continuation line of the          *)
(* statement above it); the block tree is the one Robot Framework's parser *)
(* builds from such lines, and lineno / end_lineno are read off it.        *)
(***************************************************************************)
EXTENDS Integers, Sequences, FiniteSets, TLC

\* ------------------------------------------------------------------ bounds
\* Longest document, in lines.
MaxLen == 6
\* Longest document of SpecTry, whose first three lines are fixed.
MaxTryLen == 8
\* Most comments per document that match disabler_pattern.
MaxDirectives == 2
\* Longest document of SpecWindow.
MaxWindowLen == 5
\* Largest --startline / --endline of SpecWindow.
MaxWindowLine == 6
\* Longest document of SpecRepeat, whose first six lines are fixed.
MaxRepeatLen == 9
\* Longest document of SpecIgnored.
MaxIgnoredLen == 5
\* Longest document of SpecReuse.
MaxReuseLen == 5
\* Longest document of SpecOrder.
MaxOrderLen == 5
\* Longest document of SpecLive, whose first three lines are fixed.
MaxLiveLen == 7
\* Longest document of SpecWrap, whose first three lines are fixed.
MaxWrapLen == 6
\* Longest document of SpecTargets.
MaxTargetsLen == 5
\* Longest document of SpecCli.
MaxCliLen == 5
\* Longest document of SpecHeader.
MaxHeaderLen == 5
\* Most intervals of a list and last line of an interval in SpecScan.
MaxScanIntervals == 3
MaxScanLine == 4

\* --------------------------------------------------------------- constants
ALL_TRANSFORMERS == "all"

\* Transformer names used in directives and queries.
Rule1 == "Rule1"
RuleX == "RuleX"
Transformers == {ALL_TRANSFORMERS, Rule1, RuleX}

\* Python's None for start_line / end_line / file_end.
None == 0

\* ---------------------------------------------------------------- comments
\* The result of disabler_pattern.match(comment.value): the "disabler" group,
\* whether the matched text holds "=", and the "transformers" group split at
\* "," with every entry stripped ("" is an entry that was blank).  NoMatch
\* is a comment the pattern does not match, or a statement with no comment.
NoMatch == [disabler |-> "none", eq |-> FALSE, transformers |-> <<>>]

Match(d, eq, trs) == [disabler |-> d, eq |-> eq, transformers |-> trs]

\* "# robotidy: on", "# robotidy: off", "# robotidy: off=Rule1", ...
Directives ==
    {Match(d, FALSE, <<>>) : d \in {"on", "off"}}
        \cup {Match(d, TRUE, <<t>>) : d \in {"on", "off"}, t \in {Rule1, RuleX}}

\* ------------------------------------------------------------------- lines
\* kind: "header"  section header other than *** Comments ***
\*       "cheader" *** Comments *** header
\*       "name"    test case or keyword name (opens a TestCase / Keyword)
\*       "if"      IF, FOR or WHILE header (one handler; ELSE only after IF)
\*       "else"    ELSE IF / ELSE header
\*       "try"     TRY header
\*       "except"  EXCEPT / ELSE / FINALLY header of a TRY
\*       "end"     END
\*       "stmt"    any other statement; match is its trailing comment
\*       "cont"    continuation line ("...") of the statement above
\*       "comment" a Comment statement; indent is the column of its comment
Line(k, m, i) == [kind |-> k, match |-> m, indent |-> i]

Plain(k) == Line(k, NoMatch, 0)

Indent == 4

CommentLines == {Line("comment", m, i) : m \in Directives, i \in {0, Indent}}

InlineLines == {Line("stmt", m, Indent) : m \in Directives}

HeaderLines(k) == {Line(k, m, 0) : m \in {NoMatch, Match("off", FALSE, <<>>)}}

IsDirective(l) == l.match.disabler # "none"

\* --------------------------------------------------------------- documents
Pop(s) == SubSeq(s, 1, Len(s) - 1)

Top(s) == s[Len(s)]

\* The blocks open after a prefix of a document, outermost first.
RECURSIVE CloseToSection(_)
CloseToSection(open) ==
    IF open = <<>> \/ Top(open) \in {"section", "csection"}
    THEN open
    ELSE CloseToSection(Pop(open))

After(open, l) ==
    CASE l.kind = "header" -> <<"section">>
      [] l.kind = "cheader" -> <<"csection">>
      [] l.kind = "name" -> Append(CloseToSection(open), "test")
      [] l.kind \in {"if", "try"} -> Append(open, l.kind)
      [] l.kind = "end" -> Pop(open)
      [] l.kind = "comment" /\ open = <<>> -> <<"csection">>
      [] OTHER -> open

\* What the next line of a well-formed document may be, over an alphabet
\* al = [comments, inlines, headers] of directive-bearing lines.  A document
\* that starts without a header starts with the implicit comment section.
Body(al, last) ==
    al.comments \cup al.inlines \cup {Plain("stmt")}
        \cup (IF last \in {"stmt", "cont"} THEN {Plain("cont")} ELSE {})

Headers(al, k) == {Plain(k)} \cup {Line(k, m, 0) : m \in al.headers}

Allowed(al, open, last) ==
    IF open = <<>>
    THEN Headers(al, "header") \cup Headers(al, "cheader") \cup al.comments
    ELSE CASE Top(open) = "csection" -> Headers(al, "header") \cup al.comments
           [] Top(open) = "section" ->
                Headers(al, "header") \cup {Plain("name")} \cup al.comments
           [] Top(open) = "test" ->
                Headers(al, "header") \cup {Plain("name"), Plain("if"), Plain("try")}
                    \cup Body(al, last)
           [] Top(open) = "if" -> {Plain("end"), Plain("else")} \cup Body(al, last)
           [] Top(open) = "try" -> {Plain("end"), Plain("except")} \cup Body(al, last)

RECURSIVE OpenAfter(_)
OpenAfter(d) == IF d = <<>> THEN <<>> ELSE After(OpenAfter(Pop(d)), Top(d))

\* Comments of a document that match disabler_pattern.
RECURSIVE NDirectives(_)
NDirectives(d) ==
    IF d = <<>> THEN 0
    ELSE NDirectives(Pop(d)) + (IF IsDirective(Top(d)) THEN 1 ELSE 0)

\* The lines that may follow d in a document of at most n lines.
NextLines(al, d, n) ==
    IF Len(d) >= n THEN {}
    ELSE LET last == IF d = <<>> THEN "none" ELSE Top(d).kind
         IN  {l \in Allowed(al, OpenAfter(d), last) :
                 IsDirective(l) => NDirectives(d) < MaxDirectives}

\* Every IF and TRY has its END; sections and tests end where the next starts.
Complete(d) ==
    /\ d # <<>>
    /\ \A i \in 1..Len(OpenAfter(d)) : OpenAfter(d)[i] \in {"section", "csection", "test"}

\* ------------------------------------------------- the tree behind the lines
\* First line at or after j, at nesting depth 0 relative to the start, whose
\* kind is in stops; Len(d) + 1 when there is none.
RECURSIVE Scan(_, _, _, _)
Scan(d, j, depth, stops) ==
    IF j > Len(d) THEN j
    ELSE IF depth = 0 /\ d[j].kind \in stops THEN j
    ELSE IF d[j].kind \in {"if", "try"} THEN Scan(d, j + 1, depth + 1, stops)
    ELSE IF d[j].kind = "end" THEN Scan(d, j + 1, depth - 1, stops)
    ELSE Scan(d, j + 1, depth, stops)

\* end_lineno of the statement that starts at line i.
RECURSIVE StmtEnd(_, _)
StmtEnd(d, i) ==
    IF i < Len(d) /\ d[i + 1].kind = "cont" THEN StmtEnd(d, i + 1) ELSE i

\* end_lineno of the block whose first line is i (Block.end_lineno: the
\* end_lineno of the last statement under the node).
SectionEnd(d, i) == Scan(d, i + 1, 0, {"header", "cheader"}) - 1

TestEnd(d, i) == Scan(d, i + 1, 0, {"header", "cheader", "name"}) - 1

\* The END closing the IF / TRY whose header or branch header is line i.
EndLine(d, i) == Scan(d, i + 1, 0, {"end"})

\* lineno of node.next for the TRY branch whose header is line i; None when
\* the branch is the last one.
NextBranch(d, i) ==
    LET j == Scan(d, i + 1, 0, {"except", "end"})
    IN  IF j <= Len(d) /\ d[j].kind = "except" THEN j ELSE None

BlockEnd(d, i) ==
    CASE d[i].kind \in {"header", "cheader"} -> SectionEnd(d, i)
      [] d[i].kind = "name" -> TestEnd(d, i)
      [] d[i].kind \in {"if", "try"} -> EndLine(d, i)
      [] d[i].kind \in {"else", "except"} -> EndLine(d, i) - 1
      [] OTHER -> StmtEnd(d, i)

\* ---------------------------------------------------------------- registry
\* DisabledLines.__init__: no interval, no header, not disabled as a whole.
NewDisabledLines == [lines |-> <<>>, disabled_headers |-> {}, disabled_whole |-> FALSE]

\* DisablersInFile.__init__: the registry holds the wildcard entry only.
NewDisablersInFile == (ALL_TRANSFORMERS :> NewDisabledLines)

\* The lazy creation at the head of add_disabler and add_disabled_header.
Ensure(reg, transformer) ==
    IF transformer \in DOMAIN reg THEN reg ELSE reg @@ (transformer :> NewDisabledLines)

\* A registration that marks the target as disabled in the whole file.
AddMarksWhole(reg, transformer, start, end, file_level) ==
    LET r0 == Ensure(reg, transformer)
    IN  [r0 EXCEPT ![transformer].lines = Append(@, <<start, end>>),
                   ![transformer].disabled_whole = TRUE]

\* A registration that files every interval under the wildcard entry.
AddUnderWildcard(reg, transformer, start, end, file_level) ==
    [reg EXCEPT ![ALL_TRANSFORMERS].lines = Append(@, <<start, end>>),
                ![ALL_TRANSFORMERS].disabled_whole = @ \/ file_level]

\* DisablersInFile.add_disabler
add_disabler(reg, transformer, start, end, file_level) ==
    LET r0 == Ensure(reg, transformer)
        r1 == [r0 EXCEPT ![transformer].lines = Append(@, <<start, end>>)]
    IN  IF file_level THEN [r1 EXCEPT ![transformer].disabled_whole = TRUE] ELSE r1

\* A header registration that also registers the header line as an interval.
HeaderAlsoInterval(reg, transformer, lineno) ==
    LET r0 == Ensure(reg, transformer)
    IN  [r0 EXCEPT ![transformer].disabled_headers = @ \cup {lineno},
                   ![transformer].lines = Append(@, <<lineno, lineno>>)]

\* DisablersInFile.add_disabled_header
add_disabled_header(reg, transformer, lineno) ==
    LET r0 == Ensure(reg, transformer)
    IN  [r0 EXCEPT ![transformer].disabled_headers = @ \cup {lineno}]

\* A restriction whose second interval starts on the window's last line.
GlobalFromEndLine(reg, sl, el, fe) ==
    IF sl = None THEN reg
    ELSE LET end == IF el # None THEN el ELSE sl
             r1 == IF sl > 1
                   THEN add_disabler(reg, ALL_TRANSFORMERS, 1, sl - 1, FALSE)
                   ELSE reg
         IN  IF end < fe
             THEN add_disabler(r1, ALL_TRANSFORMERS, end, fe, FALSE)
             ELSE r1

\* A restriction that runs to the end of the file when end_line is missing.
GlobalToFileEnd(reg, sl, el, fe) ==
    IF sl = None THEN reg
    ELSE LET end == IF el # None THEN el ELSE fe
             r1 == IF sl > 1
                   THEN add_disabler(reg, ALL_TRANSFORMERS, 1, sl - 1, FALSE)
                   ELSE reg
         IN  IF end < fe
             THEN add_disabler(r1, ALL_TRANSFORMERS, end + 1, fe, FALSE)
             ELSE r1

\* DisabledLines.parse_global_disablers, on the wildcard entry.
parse_global_disablers(reg, sl, el, fe) ==
    IF sl = None THEN reg
    ELSE LET end == IF el # None THEN el ELSE sl
             r1 == IF sl > 1
                   THEN add_disabler(reg, ALL_TRANSFORMERS, 1, sl - 1, FALSE)
                   ELSE reg
         IN  IF end < fe
             THEN add_disabler(r1, ALL_TRANSFORMERS, end + 1, fe, FALSE)
             ELSE r1

\* sorted(lines, key=start): a stable insertion sort.
RECURSIVE InsertByStart(_, _)
InsertByStart(sorted, iv) ==
    IF sorted = <<>> THEN <<iv>>
    ELSE IF Top(sorted)[1] <= iv[1] THEN Append(sorted, iv)
    ELSE Append(InsertByStart(Pop(sorted), iv), Top(sorted))

RECURSIVE SortByStart(_)
SortByStart(lines) ==
    IF lines = <<>> THEN <<>>
    ELSE InsertByStart(SortByStart(Pop(lines)), Top(lines))

\* A sort of the wildcard entry's intervals alone.
SortWildcardOnly(reg) ==
    [t \in DOMAIN reg |->
        IF t = ALL_TRANSFORMERS THEN [reg[t] EXCEPT !.lines = SortByStart(@)]
        ELSE reg[t]]

\* DisablersInFile.sort_disablers
sort_disablers(reg) ==
    [t \in DOMAIN reg |-> [reg[t] EXCEPT !.lines = SortByStart(@)]]

\* ----------------------------------------------------------------- queries
\* A node is [lineno, end_lineno].
Node(s, e) == [lineno |-> s, end_lineno |-> e]

Max(a, b) == IF a >= b THEN a ELSE b

\* A scan that lets the first interval of the list decide.
FirstIntervalDecides(lines, i, node, end_lineno) ==
    /\ i <= Len(lines)
    /\ lines[i][2] >= end_lineno
    /\ lines[i][1] <= node.lineno

\* The full_match loop of DisabledLines.is_node_disabled from interval i on.
RECURSIVE FullMatchFrom(_, _, _, _)
FullMatchFrom(lines, i, node, end_lineno) ==
    IF i > Len(lines) THEN FALSE
    ELSE IF lines[i][2] >= end_lineno THEN lines[i][1] <= node.lineno
    ELSE FullMatchFrom(lines, i + 1, node, end_lineno)

\* DisabledLines.is_node_disabled
LinesNodeDisabled(dl, node, full_match) ==
    IF dl.lines = <<>> THEN FALSE
    ELSE LET end_lineno == Max(node.lineno, node.end_lineno)
         IN  IF full_match
             THEN FullMatchFrom(dl.lines, 1, node, end_lineno)
             ELSE \E i \in 1..Len(dl.lines) :
                      node.lineno <= dl.lines[i][2] /\ end_lineno >= dl.lines[i][1]

\* A lookup that consults the transformer's own entry only.
OwnEntryOnly(reg, transformer_name, node, full_match) ==
    IF transformer_name \notin DOMAIN reg THEN FALSE
    ELSE LinesNodeDisabled(reg[transformer_name], node, full_match)

\* DisablersInFile.is_node_disabled
is_node_disabled(reg, transformer_name, node, full_match) ==
    IF LinesNodeDisabled(reg[ALL_TRANSFORMERS], node, full_match) THEN TRUE
    ELSE IF transformer_name \notin DOMAIN reg THEN FALSE
    ELSE LinesNodeDisabled(reg[transformer_name], node, full_match)

\* DisablersInFile.is_header_disabled
is_header_disabled(reg, transformer_name, line) ==
    IF line \in reg[ALL_TRANSFORMERS].disabled_headers THEN TRUE
    ELSE IF transformer_name \notin DOMAIN reg THEN FALSE
    ELSE line \in reg[transformer_name].disabled_headers

\* DisablersInFile.is_disabled_in_file
is_disabled_in_file(reg, transformer_name) ==
    IF reg[ALL_TRANSFORMERS].disabled_whole THEN TRUE
    ELSE IF transformer_name \notin DOMAIN reg THEN FALSE
    ELSE reg[transformer_name].disabled_whole

\* --------------------------------------------------------------- traverser
\* Token types and columns of a Comment statement's tokens, as far as
\* is_line_start reads them.
Tokens(l) ==
    IF l.indent = 0
    THEN <<[type |-> "COMMENT", col_offset |-> 0]>>
    ELSE <<[type |-> "SEPARATOR", col_offset |-> 0],
           [type |-> "COMMENT", col_offset |-> l.indent]>>

RECURSIVE LineStartFrom(_, _)
LineStartFrom(tokens, i) ==
    IF i > Len(tokens) THEN FALSE
    ELSE IF tokens[i].type = "SEPARATOR" THEN LineStartFrom(tokens, i + 1)
    ELSE tokens[i].col_offset = 0

\* No comment counts as the start of its line.
NeverLineStart(l) == FALSE

is_line_start(l) == LineStartFrom(Tokens(l), 1)

\* RegisterDisablers.get_disabler_transformers
\* str.strip on the entries a transformers list is split into.
strip(entry) ==
    CASE entry = " " -> ""
      [] entry = " Rule1" -> "Rule1"
      [] OTHER -> entry

\* [transformer.strip() for transformer in ... if transformer.strip()]
RECURSIVE NonBlank(_)
NonBlank(entries) ==
    IF entries = <<>> THEN <<>>
    ELSE IF strip(Head(entries)) = "" THEN NonBlank(Tail(entries))
    ELSE <<strip(Head(entries))>> \o NonBlank(Tail(entries))

get_disabler_transformers(m) ==
    IF m.transformers = <<>> \/ ~m.eq
    THEN <<ALL_TRANSFORMERS>>
    ELSE NonBlank(m.transformers)

\* A scope frame is a dict from transformer name to pending start line.
NewFrame == (ALL_TRANSFORMERS :> 0)

\* dict.get(transformer): None (0) when the key is missing.
Get(frame, transformer) ==
    IF transformer \in DOMAIN frame THEN frame[transformer] ELSE None

Put(frame, transformer, v) ==
    IF transformer \in DOMAIN frame
    THEN [frame EXCEPT ![transformer] = v]
    ELSE frame @@ (transformer :> v)

\* The loop of close_disabler over the popped frame's items.  The entries
\* go to different transformers' lists, so their order does not matter.
RECURSIVE CloseItems(_, _, _, _, _)
CloseItems(reg, frame, keys, end_line, file_level) ==
    IF keys = {} THEN reg
    ELSE LET k == CHOOSE t \in keys : TRUE
             r == IF frame[k] = 0 THEN reg
                  ELSE add_disabler(reg, k, frame[k], end_line, file_level)
         IN  CloseItems(r, frame, keys \ {k}, end_line, file_level)

\* A close that pops the frame and registers nothing.
CloseDropsPending(scope, reg, end_line, file_level) ==
    [scope |-> Pop(scope), reg |-> reg]

\* A close that never marks the file as disabled as a whole.
CloseNotFileLevel(scope, reg, end_line, file_level) ==
    [scope |-> Pop(scope),
     reg |-> CloseItems(reg, Top(scope), DOMAIN Top(scope), end_line, FALSE)]

\* A close that ends the pending intervals one line early.
CloseOneLineEarly(scope, reg, end_line, file_level) ==
    [scope |-> Pop(scope),
     reg |-> CloseItems(reg, Top(scope), DOMAIN Top(scope), end_line - 1, file_level)]

\* RegisterDisablers.close_disabler: [scope, reg] after the pop.
close_disabler(scope, reg, end_line, file_level) ==
    [scope |-> Pop(scope),
     reg |-> CloseItems(reg, Top(scope), DOMAIN Top(scope), end_line, file_level)]

\* A Comment branch in which an Enable with nothing pending registers its
\* own line.
RECURSIVE EnableClosesUnopened(_, _, _, _, _, _)
EnableClosesUnopened(scope, reg, transformers, index, enable, lineno) ==
    IF transformers = <<>> THEN [scope |-> scope, reg |-> reg]
    ELSE LET t == Head(transformers)
             start == Get(scope[index], t)
         IN  IF enable
             THEN EnableClosesUnopened(
                      [scope EXCEPT ![index] = Put(@, t, 0)],
                      add_disabler(reg, t, IF start = 0 THEN lineno ELSE start,
                                   lineno, FALSE),
                      Tail(transformers), index, enable, lineno)
             ELSE IF start = 0
                  THEN EnableClosesUnopened([scope EXCEPT ![index] = Put(@, t, lineno)],
                                            reg, Tail(transformers), index, enable,
                                            lineno)
                  ELSE EnableClosesUnopened(scope, reg, Tail(transformers), index,
                                            enable, lineno)

\* A Comment branch in which every Disable overwrites the pending start.
RECURSIVE LastDisableWins(_, _, _, _, _, _)
LastDisableWins(scope, reg, transformers, index, enable, lineno) ==
    IF transformers = <<>> THEN [scope |-> scope, reg |-> reg]
    ELSE LET t == Head(transformers)
             start == Get(scope[index], t)
         IN  IF enable
             THEN IF start = 0
                  THEN LastDisableWins(scope, reg, Tail(transformers), index, enable,
                                       lineno)
                  ELSE LastDisableWins([scope EXCEPT ![index] = Put(@, t, 0)],
                                       add_disabler(reg, t, start, lineno, FALSE),
                                       Tail(transformers), index, enable, lineno)
             ELSE LastDisableWins([scope EXCEPT ![index] = Put(@, t, lineno)], reg,
                                  Tail(transformers), index, enable, lineno)

\* The Comment branch of visit_Statement: the loop over transformers on the
\* frame at index (1 is Python's 0, Len(scope) is Python's -1).
RECURSIVE CommentLoop(_, _, _, _, _, _)
CommentLoop(scope, reg, transformers, index, enable, lineno) ==
    IF transformers = <<>> THEN [scope |-> scope, reg |-> reg]
    ELSE LET t == Head(transformers)
             start == Get(scope[index], t)
         IN  IF enable
             THEN IF start = 0
                  THEN CommentLoop(scope, reg, Tail(transformers), index, enable, lineno)
                  ELSE CommentLoop([scope EXCEPT ![index] = Put(@, t, 0)],
                                   add_disabler(reg, t, start, lineno, FALSE),
                                   Tail(transformers), index, enable, lineno)
             ELSE IF start = 0
                  THEN CommentLoop([scope EXCEPT ![index] = Put(@, t, lineno)], reg,
                                   Tail(transformers), index, enable, lineno)
                  ELSE CommentLoop(scope, reg, Tail(transformers), index, enable, lineno)

\* An inline branch that registers nothing.
InlineIgnored(reg, transformers, lineno, end_lineno) == reg

\* The inline branch of visit_Statement: one add_disabler per transformer.
RECURSIVE InlineLoop(_, _, _, _)
InlineLoop(reg, transformers, lineno, end_lineno) ==
    IF transformers = <<>> THEN reg
    ELSE InlineLoop(add_disabler(reg, Head(transformers), lineno, end_lineno, FALSE),
                    Tail(transformers), lineno, end_lineno)

\* The loop of visit_SectionHeader over the transformers of the first "off".
RECURSIVE HeaderLoop(_, _, _)
HeaderLoop(reg, transformers, lineno) ==
    IF transformers = <<>> THEN reg
    ELSE HeaderLoop(add_disabled_header(reg, Head(transformers), lineno),
                    Tail(transformers), lineno)

\* ------------------------------------------------------------------- state
VARIABLES
    start_line,             \* RegisterDisablers.start_line (None = 0)
    end_line,               \* RegisterDisablers.end_line (None = 0)
    disablers,              \* DisablersInFile.disablers: name -> DisabledLines
    file_end,               \* DisablersInFile.file_end
    disablers_in_scope,     \* the stack of scope frames
    file_level_disablers,   \* RegisterDisablers.file_level_disablers
    doc,                    \* the File model: being parsed, then visited
    pc,                     \* the line of the next statement to visit
    ctl,                    \* the visit_* calls in progress, outermost first
    phase,                  \* "cli", "parse", "visit" or "done"
    overwrite,              \* cli: --overwrite / --no-overwrite, <<>> is None
    config_overwrite,       \* Config.overwrite, <<>> before cli has set it
    check,                  \* cli: --check
    wrapped                 \* the last call of a skip_if_disabled wrapper, <<>> before any

vars == <<start_line, end_line, disablers, file_end, disablers_in_scope,
          file_level_disablers, doc, pc, ctl, phase, overwrite, check,
          config_overwrite, wrapped>>

\* What cli hands to Config once the options are settled.
config == <<start_line, end_line, overwrite, check, config_overwrite>>

\* A visit_* call in progress: the node's kind and first line, the last line
\* of the body it iterates, and the end line it will hand to close_disabler.
Call(k, line, last, close) == [kind |-> k, line |-> line, last |-> last, close |-> close]

Visiting == phase = "visit" /\ ctl # <<>> /\ pc <= Top(ctl).last

\* robot.api get_model: the parser adds one more line to the File model.
ParseLine(al, n) ==
    /\ phase = "parse"
    /\ \E l \in NextLines(al, doc, n) : doc' = Append(doc, l)
    /\ UNCHANGED <<config, wrapped, disablers, file_end, disablers_in_scope,
                   file_level_disablers, pc, ctl, phase>>

\* A visit_File that keeps the registry of the file visited before.
VisitFileKeepsRegistry ==
    /\ phase = "parse"
    /\ Complete(doc)
    /\ file_level_disablers' = FALSE
    /\ file_end' = Len(doc)
    /\ disablers' = parse_global_disablers(disablers, start_line, end_line, Len(doc))
    /\ pc' = 1
    /\ ctl' = <<>>
    /\ phase' = "visit"
    /\ UNCHANGED <<config, wrapped, disablers_in_scope, doc>>

\* visit_File up to its loop: a fresh registry with the global disablers.
VisitFile ==
    /\ phase = "parse"
    /\ Complete(doc)
    /\ file_level_disablers' = FALSE
    /\ file_end' = Len(doc)
    /\ disablers' = parse_global_disablers(NewDisablersInFile, start_line, end_line,
                                           Len(doc))
    /\ pc' = 1
    /\ ctl' = <<>>
    /\ phase' = "visit"
    /\ UNCHANGED <<config, wrapped, disablers_in_scope, doc>>

\* One iteration of visit_File's loop, up to the frame visit_Section pushes.
\* The section is the first one when it starts at line 1, and a
\* CommentSection when its header is *** Comments *** or missing.
VisitSection ==
    /\ phase = "visit"
    /\ ctl = <<>>
    /\ pc <= Len(doc)
    /\ file_level_disablers' = (pc = 1 /\ doc[pc].kind \in {"cheader", "comment"})
    /\ disablers_in_scope' = Append(disablers_in_scope, NewFrame)
    /\ ctl' = <<Call("section", pc, SectionEnd(doc, pc), SectionEnd(doc, pc))>>
    /\ UNCHANGED <<config, wrapped, disablers, file_end, doc, pc, phase>>

\* visit_SectionHeader
VisitSectionHeader ==
    /\ Visiting
    /\ doc[pc].kind \in {"header", "cheader"}
    /\ disablers' = IF doc[pc].match.disabler = "off"
                    THEN HeaderLoop(disablers, get_disabler_transformers(doc[pc].match), pc)
                    ELSE disablers
    /\ pc' = pc + 1
    /\ UNCHANGED <<config, wrapped, file_end, disablers_in_scope, file_level_disablers,
                   doc, ctl, phase>>

\* visit_TestCase and its aliases (Keyword, For, While, If) up to
\* generic_visit: push a frame, then walk the node's fields.  An ELSE branch
\* is the orelse field of its IF and is visited inside the IF's frame.
VisitTestCase ==
    /\ Visiting
    /\ doc[pc].kind \in {"name", "if", "else"}
    /\ disablers_in_scope' = Append(disablers_in_scope, NewFrame)
    /\ ctl' = Append(ctl, Call(doc[pc].kind, pc, BlockEnd(doc, pc), BlockEnd(doc, pc)))
    /\ pc' = pc + 1
    /\ UNCHANGED <<config, wrapped, disablers, file_end, file_level_disablers, doc, phase>>

\* The tail of visit_TestCase: close_disabler(node.end_lineno).
CloseBlock ==
    /\ phase = "visit"
    /\ ctl # <<>>
    /\ Top(ctl).kind \in {"section", "name", "if", "else"}
    /\ pc > Top(ctl).last
    /\ LET r == close_disabler(disablers_in_scope, disablers, Top(ctl).close,
                               file_level_disablers)
       IN  /\ disablers_in_scope' = r.scope
           /\ disablers' = r.reg
    /\ ctl' = Pop(ctl)
    /\ UNCHANGED <<config, wrapped, file_end, file_level_disablers, doc, pc, phase>>

\* visit_Statement
VisitStatement ==
    /\ Visiting
    /\ doc[pc].kind \in {"comment", "stmt", "end"}
    /\ LET l == doc[pc]
           transformers == get_disabler_transformers(l.match)
       IN  IF l.kind = "comment"
           THEN IF l.match = NoMatch
                THEN UNCHANGED <<disablers, disablers_in_scope>>
                ELSE LET index == IF is_line_start(l) THEN 1
                                  ELSE Len(disablers_in_scope)
                         r == CommentLoop(disablers_in_scope, disablers, transformers,
                                          index, l.match.disabler = "on", pc)
                     IN  /\ disablers_in_scope' = r.scope
                         /\ disablers' = r.reg
           ELSE /\ disablers' = IF l.match.disabler = "off"
                                THEN InlineLoop(disablers, transformers, pc,
                                                StmtEnd(doc, pc))
                                ELSE disablers
                /\ UNCHANGED disablers_in_scope
    /\ pc' = StmtEnd(doc, pc) + 1
    /\ UNCHANGED <<config, wrapped, file_end, file_level_disablers, doc, ctl, phase>>

\* visit_Try up to the first loop over node.body.
VisitTry ==
    /\ Visiting
    /\ doc[pc].kind = "try"
    /\ disablers_in_scope' = Append(disablers_in_scope, NewFrame)
    /\ LET next == NextBranch(doc, pc)
           last == (IF next # None THEN next ELSE EndLine(doc, pc)) - 1
       IN  ctl' = Append(ctl, Call("try", pc, last, EndLine(doc, pc)))
    /\ pc' = pc + 1
    /\ UNCHANGED <<config, wrapped, disablers, file_end, file_level_disablers, doc, phase>>

\* visit_Try after the first loop: close_disabler(node.end_lineno); tail = node.
TryCloseBody ==
    /\ phase = "visit"
    /\ ctl # <<>>
    /\ Top(ctl).kind = "try"
    /\ pc > Top(ctl).last
    /\ LET r == close_disabler(disablers_in_scope, disablers, Top(ctl).close,
                               file_level_disablers)
       IN  /\ disablers_in_scope' = r.scope
           /\ disablers' = r.reg
    /\ ctl' = Append(Pop(ctl), Call("tail", Top(ctl).line, 0, 0))
    /\ UNCHANGED <<config, wrapped, file_end, file_level_disablers, doc, pc, phase>>

\* "while tail.next": either push a frame and walk tail.body, or return from
\* visit_Try, which leaves the visitor behind the TRY's END.
TryWhile ==
    /\ phase = "visit"
    /\ ctl # <<>>
    /\ Top(ctl).kind = "tail"
    /\ LET tail == Top(ctl).line
           next == NextBranch(doc, tail)
       IN  IF next # None
           THEN /\ disablers_in_scope' = Append(disablers_in_scope, NewFrame)
                /\ ctl' = Append(Pop(ctl), Call("tailbody", tail, next - 1, next - 1))
                /\ pc' = tail + 1
           ELSE /\ ctl' = Pop(ctl)
                /\ pc' = EndLine(doc, tail) + 1
                /\ UNCHANGED disablers_in_scope
    /\ UNCHANGED <<config, wrapped, disablers, file_end, file_level_disablers, doc, phase>>

\* An end of the while body that leaves tail where it is.
TailNeverAdvances ==
    /\ phase = "visit"
    /\ ctl # <<>>
    /\ Top(ctl).kind = "tailbody"
    /\ pc > Top(ctl).last
    /\ LET r == close_disabler(disablers_in_scope, disablers, Top(ctl).close,
                               file_level_disablers)
       IN  /\ disablers_in_scope' = r.scope
           /\ disablers' = r.reg
    /\ ctl' = Append(Pop(ctl), Call("tail", Top(ctl).line, 0, 0))
    /\ UNCHANGED <<config, wrapped, file_end, file_level_disablers, doc, pc, phase>>

\* The end of the while body: close_disabler(tail.next.lineno - 1);
\* tail = tail.next.
TryCloseTail ==
    /\ phase = "visit"
    /\ ctl # <<>>
    /\ Top(ctl).kind = "tailbody"
    /\ pc > Top(ctl).last
    /\ LET r == close_disabler(disablers_in_scope, disablers, Top(ctl).close,
                               file_level_disablers)
       IN  /\ disablers_in_scope' = r.scope
           /\ disablers' = r.reg
    /\ ctl' = Append(Pop(ctl), Call("tail", NextBranch(doc, Top(ctl).line), 0, 0))
    /\ UNCHANGED <<config, wrapped, file_end, file_level_disablers, doc, pc, phase>>

\* The last statement of visit_File: self.disablers.sort_disablers().
SortDisablers ==
    /\ phase = "visit"
    /\ ctl = <<>>
    /\ pc > Len(doc)
    /\ disablers' = sort_disablers(disablers)
    /\ phase' = "done"
    /\ UNCHANGED <<config, wrapped, file_end, disablers_in_scope, file_level_disablers,
                   doc, pc, ctl>>

Visit ==
    \/ VisitFile
    \/ VisitSection
    \/ VisitSectionHeader
    \/ VisitTestCase
    \/ CloseBlock
    \/ VisitStatement
    \/ VisitTry
    \/ TryCloseBody
    \/ TryWhile
    \/ TryCloseTail
    \/ SortDisablers

\* ---------------------------------------------------------- specifications
\* The state after RegisterDisablers(start_line, end_line), no File parsed.
Constructed ==
    /\ disablers = NewDisablersInFile
    /\ file_end = None
    /\ disablers_in_scope = <<>>
    /\ file_level_disablers = FALSE
    /\ doc = <<>>
    /\ pc = 0
    /\ ctl = <<>>
    /\ phase = "parse"
    /\ wrapped = <<>>

\* robotidy run without --check and without an overwrite flag, after cli has
\* settled the options.
Defaults ==
    /\ overwrite = <<>>
    /\ check = FALSE
    /\ config_overwrite = <<TRUE>>

\* Directive-bearing lines of the documents of Spec: full-line on / off
\* comments, wildcard or for Rule1, at column 0 or indented, an indented
\* off=RuleX, statements with a trailing off, and section headers with one.
Alphabet ==
    [comments |-> {Line("comment", m, i) :
                      m \in {Match("off", FALSE, <<>>), Match("on", FALSE, <<>>),
                             Match("off", TRUE, <<Rule1>>), Match("on", TRUE, <<Rule1>>)},
                      i \in {0, Indent}}
                  \cup {Line("comment", Match("off", TRUE, <<RuleX>>), Indent)},
     inlines |-> {Line("stmt", m, Indent) :
                     m \in {Match("off", FALSE, <<>>), Match("off", TRUE, <<Rule1>>)}},
     headers |-> {Match("off", FALSE, <<>>), Match("off", TRUE, <<Rule1>>)}]

\* No --startline / --endline.
Init ==
    /\ start_line = None
    /\ end_line = None
    /\ Defaults
    /\ Constructed

Next == ParseLine(Alphabet, MaxLen) \/ Visit

Spec == Init /\ [][Next]_vars

\* Files whose first test case opens with a TRY: the parser has read the
\* section header, the test name and the TRY header.
TryFile == <<Plain("header"), Plain("name"), Plain("try")>>

InitTry ==
    /\ start_line = None
    /\ end_line = None
    /\ disablers = NewDisablersInFile
    /\ file_end = None
    /\ disablers_in_scope = <<>>
    /\ file_level_disablers = FALSE
    /\ doc = TryFile
    /\ pc = 0
    /\ ctl = <<>>
    /\ phase = "parse"
    /\ wrapped = <<>>
    /\ Defaults

NextTry == ParseLine(Alphabet, MaxTryLen) \/ Visit

SpecTry == InitTry /\ [][NextTry]_vars

\* Files formatted with --startline, with or without --endline: the
\* directive-bearing lines are wildcard on / off comments at column 0, an
\* indented wildcard off and statements with a trailing off=Rule1.
WindowAlphabet ==
    [comments |-> {Line("comment", Match("off", FALSE, <<>>), 0),
                   Line("comment", Match("on", FALSE, <<>>), 0),
                   Line("comment", Match("off", FALSE, <<>>), Indent)},
     inlines |-> {Line("stmt", Match("off", TRUE, <<Rule1>>), Indent)},
     headers |-> {}]

InitWindow ==
    /\ start_line \in 1..MaxWindowLine
    /\ end_line \in {None} \cup 1..MaxWindowLine
    /\ Defaults
    /\ Constructed

NextWindow == ParseLine(WindowAlphabet, MaxWindowLen) \/ Visit

SpecWindow == InitWindow /\ [][NextWindow]_vars

Done == phase = "done"

\* ------------------------------------------------------ reading a document
\* The header lines of the blocks that contain line i, outermost first: the
\* section, then the test or keyword, then every block or branch around i.
\* The implicit comment section is named by line 1.
RECURSIVE Enclosing(_, _)
Enclosing(d, i) ==
    IF i <= 1 THEN <<>>
    ELSE LET j == i - 1
             before == Enclosing(d, j)
             k == d[j].kind
         IN  CASE k \in {"header", "cheader"} -> <<j>>
               [] k = "name" -> <<before[1], j>>
               [] k \in {"if", "try"} -> Append(before, j)
               [] k \in {"else", "except"} -> Append(Pop(before), j)
               [] k = "end" -> Pop(before)
               [] before = <<>> -> <<1>>
               [] OTHER -> before

\* The scope of a body line: the innermost block or branch around it.
ScopeOf(d, i) == IF Enclosing(d, i) = <<>> THEN 1 ELSE Top(Enclosing(d, i))

SectionOf(d, i) == IF Enclosing(d, i) = <<>> THEN 1 ELSE Enclosing(d, i)[1]

\* The last branch of a TRY that has more than one branch.
LastBranch(d, j) == d[j].kind = "except" /\ NextBranch(d, j) = None

\* The lines inside the last branch of a multi-branch TRY.
InLastBranch(d, i) ==
    \E n \in 1..Len(Enclosing(d, i)) : LastBranch(d, Enclosing(d, i)[n])

Lines == 1..Len(doc)

\* Every line range a node of the document can have, and the line after.
Nodes == {Node(s, f) : s \in 1..(Len(doc) + 1), f \in 1..(Len(doc) + 1)}

Within(node, a, b) == a <= node.lineno /\ node.lineno <= node.end_lineno /\ node.end_lineno <= b

\* Line i is a Comment statement holding a directive `action` that names t.
Names(l, t) ==
    \E n \in 1..Len(get_disabler_transformers(l.match)) :
        get_disabler_transformers(l.match)[n] = t

FullLine(d, i, action, t) ==
    /\ d[i].kind = "comment"
    /\ d[i].match.disabler = action
    /\ Names(d[i], t)

\* The scope whose frame a full-line directive reads and writes.
FrameOf(d, i) == IF d[i].indent = 0 THEN SectionOf(d, i) ELSE ScopeOf(d, i)

\* A balanced pair for t: a full-line off at line a and the next full-line
\* on for t of the same frame at line b, both directly in the same scope.
BalancedPair(d, a, b, t) ==
    /\ a < b
    /\ FullLine(d, a, "off", t)
    /\ FullLine(d, b, "on", t)
    /\ ScopeOf(d, a) = ScopeOf(d, b)
    /\ FrameOf(d, a) = FrameOf(d, b)
    /\ \A m \in (a + 1)..(b - 1) :
           FullLine(d, m, "on", t) => FrameOf(d, m) # FrameOf(d, a)

PairDisables(d, reg, a, b, t) ==
    /\ \A node \in Nodes : Within(node, a, b) => is_node_disabled(reg, t, node, TRUE)
    /\ NDirectives(d) = 2 =>
           \A node \in Nodes :
               node.lineno = b + 1 /\ node.end_lineno >= b + 1
                   => ~is_node_disabled(reg, t, node, TRUE)

\* C1: after traversal, a balanced full-line off / on pair for a target at
\* lines a / b of one scope disables, for that target, every node lying in
\* [a, b], and with no other directive in the document no node that starts at
\* line b + 1.
C1_BalancedPair ==
    Done => \A a \in Lines, b \in Lines, t \in Transformers :
                BalancedPair(doc, a, b, t) => PairDisables(doc, disablers, a, b, t)

\* The same statement for the pairs visit_Try reaches: those outside the
\* last branch of a multi-branch TRY.
C1_VisitedPair ==
    Done => \A a \in Lines, b \in Lines, t \in Transformers :
                BalancedPair(doc, a, b, t) /\ ~InLastBranch(doc, a)
                    => PairDisables(doc, disablers, a, b, t)

C1_VisitedPairWitness ==
    /\ Done
    /\ \E a \in Lines, b \in Lines :
           /\ BalancedPair(doc, a, b, Rule1)
           /\ ~InLastBranch(doc, a)
           /\ Len(Enclosing(doc, a)) = 3
           /\ b + 1 <= Len(doc)

\* An inline off for t: statement i carries a trailing "# robotidy: off"
\* that names t.
InlineOff(d, i, t) ==
    /\ d[i].kind = "stmt"
    /\ d[i].match.disabler = "off"
    /\ Names(d[i], t)

WhollyOutside(node, s, e) ==
    /\ node.lineno <= node.end_lineno
    /\ node.end_lineno < s \/ node.lineno > e

InlineDisables(d, reg, i, t) ==
    /\ is_node_disabled(reg, t, Node(i, StmtEnd(d, i)), TRUE)
    /\ NDirectives(d) = 1 =>
           \A node \in Nodes, u \in Transformers :
               WhollyOutside(node, i, StmtEnd(d, i)) => ~is_node_disabled(reg, u, node, TRUE)

\* C2: after traversal, a statement spanning [s, e] with a trailing off is
\* reported disabled for each target of the directive, and when that is the
\* only directive no node wholly before s or wholly after e is disabled.
C2_InlineOff ==
    Done => \A i \in Lines, t \in Transformers :
                InlineOff(doc, i, t) => InlineDisables(doc, disablers, i, t)

\* The step of visit_Statement on a statement with a trailing off.
InlineOffStep ==
    /\ Visiting
    /\ doc[pc].kind = "stmt"
    /\ doc[pc].match.disabler = "off"
    /\ pc' # pc

Registered(reg, t) == IF t \in DOMAIN reg THEN reg[t] ELSE NewDisabledLines

\* C2, the registration itself: the step appends exactly (s, e) to each
\* target's intervals, touches nothing else of the registry and leaves every
\* scope frame as it was.
C2_InlineRegisters ==
    [][InlineOffStep =>
          /\ disablers_in_scope' = disablers_in_scope
          /\ \A t \in Transformers :
                 IF Names(doc[pc], t)
                 THEN disablers'[t] =
                          [Registered(disablers, t) EXCEPT
                              !.lines = Append(@, <<pc, StmtEnd(doc, pc)>>)]
                 ELSE Registered(disablers', t) = Registered(disablers, t)]_vars

\* C2 for the statements visit_Try reaches.
C2_VisitedInlineOff ==
    Done => \A i \in Lines, t \in Transformers :
                InlineOff(doc, i, t) /\ ~InLastBranch(doc, i)
                    => InlineDisables(doc, disablers, i, t)

\* A name no directive ever carries.
Unregistered == "Other"

Queried == Transformers \cup {Unregistered}


\* C3: the wildcard entry always exists, and once visit_File has returned the
\* registry each query, for every name, is the wildcard entry's answer or the
\* answer of the name's own entry; a name without an entry gets the wildcard
\* entry's answer alone.
C3_WildcardOrOwn ==
    /\ ALL_TRANSFORMERS \in DOMAIN disablers
    /\ Done =>
         LET wild == disablers[ALL_TRANSFORMERS]
             Own(t) == IF t \in DOMAIN disablers THEN disablers[t] ELSE NewDisabledLines
         IN  /\ \A node \in Nodes, mode \in BOOLEAN :
                    LET w == LinesNodeDisabled(wild, node, mode)
                    IN  \A t \in Queried :
                            is_node_disabled(disablers, t, node, mode)
                                <=> (w \/ LinesNodeDisabled(Own(t), node, mode))
             /\ \A line \in Lines, t \in Queried :
                    is_header_disabled(disablers, t, line)
                        <=> \/ line \in wild.disabled_headers
                            \/ line \in Own(t).disabled_headers
             /\ \A t \in Queried :
                    is_disabled_in_file(disablers, t)
                        <=> (wild.disabled_whole \/ Own(t).disabled_whole)

\* A registry in which the wildcard entry and Rule1's entry answer
\* differently for a node, a header line and the file, and RuleX has no entry.
C3_Witness ==
    /\ Done
    /\ Rule1 \in DOMAIN disablers
    /\ RuleX \notin DOMAIN disablers
    /\ \E node \in Nodes :
           /\ is_node_disabled(disablers, Rule1, node, TRUE)
           /\ ~is_node_disabled(disablers, RuleX, node, TRUE)
    /\ \E line \in Lines :
           /\ is_header_disabled(disablers, Rule1, line)
           /\ ~is_header_disabled(disablers, RuleX, line)
    /\ is_disabled_in_file(disablers, Rule1)
    /\ ~is_disabled_in_file(disablers, RuleX)

\* The names an "off=..." comment lists, read off the comment itself.
Listed(l) == {l.match.transformers[n] : n \in 1..Len(l.match.transformers)}

\* The visitor's step on a line (comment, statement or section header) that
\* carries "off=X, ..." with at least one name.
NamedOffStep ==
    /\ Visiting
    /\ doc[pc].kind \in {"comment", "stmt", "header", "cheader"}
    /\ doc[pc].match.disabler = "off"
    /\ doc[pc].match.eq
    /\ Listed(doc[pc]) \ {""} # {}
    /\ pc' # pc

\* The pending start of t in every open frame, outermost first.
Pending(scope, t) == [i \in 1..Len(scope) |-> Get(scope[i], t)]

\* C4: after traversal every interval of the wildcard entry makes the node
\* query true, in both modes, for every target and every node inside it; and
\* the step on an "off=X" leaves alone what the queries for any name it does
\* not list read (the wildcard entry, that name's entry, their pending starts
\* and the file-level flag), and moves on as it does from a plain line.
C4_WildcardAndNamedOff ==
    /\ [](Done =>
            \A n \in 1..Len(disablers[ALL_TRANSFORMERS].lines) :
                LET iv == disablers[ALL_TRANSFORMERS].lines[n]
                IN  \A node \in Nodes :
                        Within(node, iv[1], iv[2]) =>
                            \A t \in Queried, mode \in BOOLEAN :
                                is_node_disabled(disablers, t, node, mode))
    /\ [][NamedOffStep =>
             /\ \A y \in (Queried \cup {ALL_TRANSFORMERS}) \ Listed(doc[pc]) :
                    /\ Registered(disablers', y) = Registered(disablers, y)
                    /\ Pending(disablers_in_scope', y) = Pending(disablers_in_scope, y)
             /\ pc' = StmtEnd(doc, pc) + 1
             /\ <<ctl, file_level_disablers, phase>>' = <<ctl, file_level_disablers, phase>>
         ]_vars

\* After traversal: a visited full-line wildcard off whose interval disables
\* a node for RuleX, next to an "off=Rule1" that left RuleX without an entry.
C4_Witness ==
    /\ Done
    /\ RuleX \notin DOMAIN disablers
    /\ Rule1 \in DOMAIN disablers
    /\ disablers[Rule1].lines # <<>>
    /\ \E a \in Lines, n \in 1..Len(disablers[ALL_TRANSFORMERS].lines) :
           /\ FullLine(doc, a, "off", ALL_TRANSFORMERS)
           /\ disablers[ALL_TRANSFORMERS].lines[n][1] = a
           /\ is_node_disabled(disablers, RuleX, Node(a, disablers[ALL_TRANSFORMERS].lines[n][2]), TRUE)
           /\ \E node \in Nodes :
                  /\ is_node_disabled(disablers, Rule1, node, TRUE)
                  /\ ~is_node_disabled(disablers, RuleX, node, TRUE)

\* The end line of the block a frame belongs to: node.end_lineno for a test
\* case, a conditional and its ELSE branches; for a branch of a TRY the line
\* before the next branch, and the TRY's END when it has one branch.
OwnEnd(d, h) ==
    CASE d[h].kind = "try" ->
             IF NextBranch(d, h) # None THEN NextBranch(d, h) - 1 ELSE EndLine(d, h)
      [] d[h].kind = "except" ->
             IF NextBranch(d, h) # None THEN NextBranch(d, h) - 1 ELSE EndLine(d, h) - 1
      [] OTHER -> BlockEnd(d, h)

\* An indented full-line off for t at line a inside a test case, conditional
\* or TRY branch, with no other full-line directive for t aimed at its frame.
NestedOff(d, a, t) ==
    /\ FullLine(d, a, "off", t)
    /\ d[a].indent > 0
    /\ d[ScopeOf(d, a)].kind \in {"name", "if", "else", "try", "except"}
    /\ \A m \in (1..Len(d)) \ {a} :
           d[m].kind = "comment" /\ Names(d[m], t) /\ IsDirective(d[m])
               => FrameOf(d, m) # FrameOf(d, a)

AutoClosed(d, reg, a, t) ==
    LET e == OwnEnd(d, ScopeOf(d, a))
        lines == Registered(reg, t).lines
    IN  /\ \E n \in 1..Len(lines) : lines[n] = <<a, e>>
        /\ \A n \in 1..Len(lines) : lines[n][1] = a => lines[n][2] <= e
        /\ NDirectives(d) = 1 =>
               \A node \in Nodes :
                   e < node.lineno /\ node.lineno <= node.end_lineno
                       => ~is_node_disabled(reg, t, node, FALSE)

\* C5: after traversal, an unmatched full-line off inside a nested block is
\* registered as an interval from its line to the block's own end line and as
\* no longer one, and when it is the only directive no node that starts after
\* that end line is reported disabled.
C5_NestedAutoClose ==
    Done => \A a \in Lines, t \in Transformers :
                NestedOff(doc, a, t) => AutoClosed(doc, disablers, a, t)

\* The same statement for the blocks visit_TestCase closes: test cases,
\* conditionals and their ELSE branches.
C5_OutsideTry ==
    Done => \A a \in Lines, t \in Transformers :
                NestedOff(doc, a, t) /\ doc[ScopeOf(doc, a)].kind \in {"name", "if", "else"}
                    => AutoClosed(doc, disablers, a, t)

C5_OutsideTryWitness ==
    /\ Done
    /\ \E a \in Lines :
           /\ NestedOff(doc, a, Rule1)
           /\ doc[ScopeOf(doc, a)].kind = "if"
           /\ OwnEnd(doc, ScopeOf(doc, a)) < Len(doc)

\* The first section of the File is a CommentSection: the document starts
\* with *** Comments *** or with comment lines above any header.
FirstIsCommentSection(d) == d # <<>> /\ d[1].kind \in {"cheader", "comment"}

\* A full-line wildcard off at line a of the first section.
WildcardOffInFirst(d, a) ==
    /\ a <= SectionEnd(d, 1)
    /\ FullLine(d, a, "off", ALL_TRANSFORMERS)

\* ... that no later full-line wildcard on of that section closes.
OpenWildcardOff(d, a) ==
    /\ WildcardOffInFirst(d, a)
    /\ \A m \in (a + 1)..SectionEnd(d, 1) : ~FullLine(d, m, "on", ALL_TRANSFORMERS)

\* C6 as stated: any wildcard off in a leading comment section marks the file
\* as disabled for every target.
C6_AnyWildcardOff ==
    Done /\ FirstIsCommentSection(doc) /\ (\E a \in Lines : WildcardOffInFirst(doc, a))
        => \A t \in Queried \cup {ALL_TRANSFORMERS} : is_disabled_in_file(disablers, t)

\* C6: after traversal of a document whose first section is a comment
\* section with a full-line wildcard off that no later wildcard on of the
\* section closes, is_disabled_in_file is true for "all" and so for every
\* target; and it is true for "all" in no other case.
C6_OpenWildcardOff ==
    Done =>
        LET open == /\ FirstIsCommentSection(doc)
                    /\ \E a \in Lines : OpenWildcardOff(doc, a)
        IN  /\ open => \A t \in Queried \cup {ALL_TRANSFORMERS} :
                           is_disabled_in_file(disablers, t)
            /\ is_disabled_in_file(disablers, ALL_TRANSFORMERS) => open

\* A leading comment section with a wildcard on above a wildcard off left
\* open, followed by another section.
C6_Witness ==
    /\ Done
    /\ FirstIsCommentSection(doc)
    /\ \E a \in Lines, b \in Lines :
           /\ a < b
           /\ FullLine(doc, a, "on", ALL_TRANSFORMERS)
           /\ OpenWildcardOff(doc, b)
    /\ SectionEnd(doc, 1) < Len(doc)
    /\ is_disabled_in_file(disablers, RuleX)

\* C7 as stated: with a wildcard off in a leading comment section every node
\* of the document is reported disabled for every target.
C7_EveryNode ==
    Done /\ FirstIsCommentSection(doc) /\ (\E a \in Lines : WildcardOffInFirst(doc, a))
        => \A t \in Queried, s \in Lines, f \in Lines :
               s <= f => is_node_disabled(disablers, t, Node(s, f), TRUE)

\* C7: after traversal of a document whose first section is a comment
\* section with an open full-line wildcard off at line a, every node lying
\* between a and the end of that section is reported disabled for every
\* target, and when that off is the only directive no node of a later section
\* is.
C7_NodesOfCommentSection ==
    Done /\ FirstIsCommentSection(doc) =>
        \A a \in Lines :
            OpenWildcardOff(doc, a) =>
                /\ \A node \in Nodes, t \in Queried :
                       Within(node, a, SectionEnd(doc, 1))
                           => is_node_disabled(disablers, t, node, TRUE)
                /\ NDirectives(doc) = 1 =>
                       \A node \in Nodes, t \in Queried :
                           SectionEnd(doc, 1) < node.lineno /\ node.lineno <= node.end_lineno
                               => ~is_node_disabled(disablers, t, node, FALSE)

\* An open wildcard off, the only directive, in a leading comment section:
\* its line is reported disabled, a statement of a later section is not.
C7_Witness ==
    /\ Done
    /\ FirstIsCommentSection(doc)
    /\ NDirectives(doc) = 1
    /\ \E a \in Lines :
           /\ OpenWildcardOff(doc, a)
           /\ is_node_disabled(disablers, RuleX, Node(a, SectionEnd(doc, 1)), TRUE)
    /\ \E i \in Lines : doc[i].kind = "stmt" /\ ~is_node_disabled(disablers, Rule1, Node(i, i), TRUE)
    /\ is_disabled_in_file(disablers, Rule1)

\* The nodes of the document: line ranges within 1..file_end.
FileNodes == {Node(s, f) : s \in 1..Len(doc), f \in 1..Len(doc)} \cap {n \in Nodes : n.lineno <= n.end_lineno}

\* The wildcard intervals of a fresh registry after parse_global_disablers.
Synthesized == parse_global_disablers(NewDisablersInFile, start_line, end_line, file_end)

\* C8: with start_line and end_line set, after traversal every node of the
\* document lying wholly in [1, start_line - 1] or wholly in
\* [end_line + 1, file_end] is reported disabled for every target, in both
\* modes, whatever directives the document holds; the synthesized intervals
\* alone disable no node lying wholly in [start_line, end_line], and neither
\* does the traversal of a document without directives.
C8_Window ==
    Done /\ start_line # None /\ end_line # None =>
        \A node \in FileNodes, mode \in BOOLEAN :
            /\ node.end_lineno <= start_line - 1 \/ node.lineno >= end_line + 1
                   => \A t \in Queried : is_node_disabled(disablers, t, node, mode)
            /\ Within(node, start_line, end_line)
                   => /\ ~LinesNodeDisabled(Synthesized[ALL_TRANSFORMERS], node, mode)
                      /\ NDirectives(doc) = 0 =>
                             \A t \in Queried : ~is_node_disabled(disablers, t, node, mode)

\* A window strictly inside a document that holds directives on both sides of
\* the window's first line, traversed.
C8_Witness ==
    /\ Done
    /\ start_line # None /\ end_line # None
    /\ 1 < start_line /\ start_line < end_line /\ end_line < file_end
    /\ NDirectives(doc) = 2
    /\ \E a \in Lines, b \in Lines : a < start_line /\ start_line <= b
                                       /\ IsDirective(doc[a]) /\ IsDirective(doc[b])
    /\ \E node \in FileNodes : /\ Within(node, start_line, end_line)
                               /\ ~is_node_disabled(disablers, RuleX, node, FALSE)

\* The intervals --startline s alone stands for: [1, s - 1] when s > 1 and
\* [s + 1, file_end] when s < file_end.
OnlyLine(s, fe) ==
    (IF s > 1 THEN <<<<1, s - 1>>>> ELSE <<>>) \o (IF s < fe THEN <<<<s + 1, fe>>>> ELSE <<>>)

\* C10: with start_line = s and no end_line, visit_File starts the wildcard
\* entry with exactly the intervals [1, s - 1] (s > 1) and [s + 1, file_end]
\* (s < file_end); after traversal every node of the document wholly before
\* or wholly after line s is reported disabled for every target, and in a
\* document without directives those are the only intervals and the
\* single-line node on line s is not disabled.
C10_StartLineOnly ==
    start_line # None /\ end_line = None /\ phase # "parse" =>
        LET want == OnlyLine(start_line, file_end)
            have == disablers[ALL_TRANSFORMERS].lines
        IN  /\ Synthesized[ALL_TRANSFORMERS].lines = want
            /\ phase = "visit" => Len(have) >= Len(want) /\ SubSeq(have, 1, Len(want)) = want
            /\ Done =>
                 /\ \A node \in FileNodes, t \in Queried, mode \in BOOLEAN :
                        node.end_lineno < start_line \/ node.lineno > start_line
                            => is_node_disabled(disablers, t, node, mode)
                 /\ NDirectives(doc) = 0 =>
                        /\ have = want
                        /\ \A t \in Queried, mode \in BOOLEAN :
                               ~is_node_disabled(disablers, t, Node(start_line, start_line), mode)

\* --startline on an inner line of a traversed document without directives.
C10_Witness ==
    /\ Done
    /\ end_line = None
    /\ 1 < start_line /\ start_line < file_end
    /\ NDirectives(doc) = 0
    /\ disablers[ALL_TRANSFORMERS].lines = <<<<1, start_line - 1>>, <<start_line + 1, file_end>>>>

\* A full-line off=Rule1 at line d, a statement at line k and a full-line
\* wildcard on at line e, in this order and directly in one scope.
NamedOffThenOn(doc_, d, k, e) ==
    /\ d < k /\ k < e
    /\ FullLine(doc_, d, "off", Rule1)
    /\ doc_[d].match.eq
    /\ doc_[k].kind = "stmt"
    /\ FullLine(doc_, e, "on", ALL_TRANSFORMERS)
    /\ ScopeOf(doc_, d) = ScopeOf(doc_, k)
    /\ ScopeOf(doc_, k) = ScopeOf(doc_, e)

OnlyRule1(doc_, reg, k) ==
    /\ is_node_disabled(reg, Rule1, Node(k, StmtEnd(doc_, k)), TRUE)
    /\ \A t \in Queried \ {Rule1} :
           ~is_node_disabled(reg, t, Node(k, StmtEnd(doc_, k)), TRUE)

\* C9: after traversal, a statement between an off=Rule1 and a later
\* wildcard on of its scope is reported disabled for Rule1 and for no other
\* rule name.
C9_NamedOffWildcardOn ==
    Done => \A d \in Lines, k \in Lines, e \in Lines :
                NamedOffThenOn(doc, d, k, e) => OnlyRule1(doc, disablers, k)

\* The same statement for the scopes visit_Try reaches.
C9_VisitedNamedOff ==
    Done => \A d \in Lines, k \in Lines, e \in Lines :
                NamedOffThenOn(doc, d, k, e) /\ ~InLastBranch(doc, k)
                    => OnlyRule1(doc, disablers, k)

C9_VisitedNamedOffWitness ==
    /\ Done
    /\ \E d \in Lines, k \in Lines, e \in Lines :
           /\ NamedOffThenOn(doc, d, k, e)
           /\ ~InLastBranch(doc, k)
           /\ doc[ScopeOf(doc, k)].kind = "try"

\* ------------------------------------------------------------ transformers
\* skip_if_disabled(func)(self, node): how often func was called and what
\* the wrapper returned, for a transformer of class class_name.
skip_if_disabled(reg, class_name, node) ==
    IF is_node_disabled(reg, class_name, node, TRUE)
    THEN [class_name |-> class_name, node |-> node, called |-> 0, returned |-> "node"]
    ELSE [class_name |-> class_name, node |-> node, called |-> 1, returned |-> "func(node)"]

\* A transformer visits a node of the File with the registry visit_File
\* returned.
CallWrapped ==
    /\ phase = "done"
    /\ \E node \in FileNodes, class_name \in {Rule1, RuleX} :
           wrapped' = <<skip_if_disabled(disablers, class_name, node)>>
    /\ UNCHANGED <<config, disablers, file_end, disablers_in_scope,
                   file_level_disablers, doc, pc, ctl, phase>>

\* Files whose test case opens with a TRY and whose only directives are
\* trailing offs, formatted without a window, with --startline 4 alone or
\* with --startline 4 --endline 5.
WrapAlphabet ==
    [comments |-> {},
     inlines |-> {Line("stmt", m, Indent) :
                     m \in {Match("off", FALSE, <<>>), Match("off", TRUE, <<Rule1>>)}},
     headers |-> {}]

InitWrap ==
    /\ \E w \in {<<None, None>>, <<4, None>>, <<4, 5>>} :
           start_line = w[1] /\ end_line = w[2]
    /\ Defaults
    /\ disablers = NewDisablersInFile
    /\ file_end = None
    /\ disablers_in_scope = <<>>
    /\ file_level_disablers = FALSE
    /\ doc = TryFile
    /\ pc = 0
    /\ ctl = <<>>
    /\ phase = "parse"
    /\ wrapped = <<>>

NextWrap == ParseLine(WrapAlphabet, MaxWrapLen) \/ Visit \/ CallWrapped

SpecWrap == InitWrap /\ [][NextWrap]_vars

\* The node lies within start_line..end_line (line start_line alone when
\* end_line is missing); every node does when no window was passed.
WithinWindow(node) ==
    \/ start_line = None
    \/ Within(node, start_line, IF end_line # None THEN end_line ELSE start_line)

\* The node lies wholly before or wholly after the window.
OutsideWindow(node) ==
    /\ start_line # None
    /\ \/ node.end_lineno < start_line
       \/ node.lineno > (IF end_line # None THEN end_line ELSE start_line)

\* The node lies in a statement that carries a trailing off for the class
\* name or for the wildcard.
MatchesOff(d, node, class_name) ==
    \E i \in 1..Len(d) :
        /\ InlineOff(d, i, class_name) \/ InlineOff(d, i, ALL_TRANSFORMERS)
        /\ Within(node, i, StmtEnd(d, i))

MatchesVisitedOff(d, node, class_name) ==
    \E i \in 1..Len(d) :
        /\ InlineOff(d, i, class_name) \/ InlineOff(d, i, ALL_TRANSFORMERS)
        /\ ~InLastBranch(d, i)
        /\ Within(node, i, StmtEnd(d, i))

Skipped(w) == w.called = 0 /\ w.returned = "node"

CalledOnce(w) == w.called = 1 /\ w.returned = "func(node)"

\* C11: a wrapped method returns the node and does not call the method when
\* the node is not within the window or lies in a statement with a trailing
\* off for its class or the wildcard; otherwise it calls the method once and
\* returns its result.
C11_SkipIfDisabled ==
    wrapped # <<>> =>
        LET w == wrapped[1]
        IN  IF ~WithinWindow(w.node) \/ MatchesOff(doc, w.node, w.class_name)
            THEN Skipped(w)
            ELSE CalledOnce(w)

\* What the wrapper does: it skips the nodes wholly outside the window and
\* the nodes of the statements with an off that the visitor has read, and
\* calls the method once for every other node.
C11_SkipsRegistered ==
    wrapped # <<>> =>
        LET w == wrapped[1]
        IN  IF OutsideWindow(w.node) \/ MatchesVisitedOff(doc, w.node, w.class_name)
            THEN Skipped(w)
            ELSE CalledOnce(w)

C11_SkipsRegisteredWitness ==
    /\ wrapped # <<>>
    /\ start_line = 4 /\ end_line = 5
    /\ WithinWindow(wrapped[1].node)
    /\ MatchesVisitedOff(doc, wrapped[1].node, Rule1)
    /\ ~MatchesVisitedOff(doc, wrapped[1].node, RuleX)
    /\ wrapped[1].class_name = Rule1

\* ------------------------------------------------------- directive targets
\* Files whose full-line directives are "# robotidy: off", "off=", "off=,",
\* "off= , ," and "off= Rule1,": the transformers group split at the commas,
\* <<>> when the group is empty.
TargetsAlphabet ==
    [comments |-> {Line("comment", m, 0) :
                      m \in {Match("off", FALSE, <<>>),
                             Match("off", TRUE, <<>>),
                             Match("off", TRUE, <<"", "">>),
                             Match("off", TRUE, <<" ", " ", "">>),
                             Match("off", TRUE, <<" Rule1", "">>)}},
     inlines |-> {},
     headers |-> {}]

NextTargets == ParseLine(TargetsAlphabet, MaxTargetsLen) \/ Visit

SpecTargets == Init /\ [][NextTargets]_vars

\* The names an "=" list resolves to: its entries trimmed, the empty ones
\* dropped.
Resolved(m) ==
    IF m.eq
    THEN {strip(m.transformers[n]) : n \in 1..Len(m.transformers)} \ {""}
    ELSE {}

Targets(m) ==
    {get_disabler_transformers(m)[n] : n \in 1..Len(get_disabler_transformers(m))}

\* C12: for every directive of a traversed document the recognizer's targets
\* are {all} when the directive has no "=" list or a list that resolves to no
\* name, and are never empty.
C12_NeverEmpty ==
    Done => \A i \in Lines :
                IsDirective(doc[i]) =>
                    /\ Targets(doc[i].match) # {}
                    /\ Resolved(doc[i].match) = {} =>
                           Targets(doc[i].match) = {ALL_TRANSFORMERS}

\* What the recognizer yields: {all} without "=" or with an empty group,
\* otherwise the resolved names, none when the list holds only commas and
\* blanks.
C12_ResolvedOrAll ==
    Done => \A i \in Lines :
                IsDirective(doc[i]) =>
                    Targets(doc[i].match) =
                        IF ~doc[i].match.eq \/ doc[i].match.transformers = <<>>
                        THEN {ALL_TRANSFORMERS}
                        ELSE Resolved(doc[i].match)

\* A traversed document with "off=," above a statement that no target
\* reports disabled.
C12_ResolvedOrAllWitness ==
    /\ Done
    /\ \E i \in Lines, k \in Lines :
           /\ i < k
           /\ doc[i].match = Match("off", TRUE, <<"", "">>)
           /\ doc[k].kind = "stmt"
           /\ \A t \in Queried : ~is_node_disabled(disablers, t, Node(k, k), FALSE)

\* ---------------------------------------------------------------------- cli
\* An overwrite setting that ignores --check.
OverwriteUnlessRefused(ow, chk) == IF ow = <<>> THEN <<TRUE>> ELSE ow

\* cli: "if overwrite is None: overwrite = not check".
cli_overwrite(ow, chk) == IF ow = <<>> THEN <<~chk>> ELSE ow

\* cli from the parsed options to Robotidy(config): the overwrite setting is
\* settled and startline / endline go to the formatting configuration.
Cli ==
    /\ phase = "cli"
    /\ config_overwrite' = cli_overwrite(overwrite, check)
    /\ phase' = "parse"
    /\ UNCHANGED <<start_line, end_line, overwrite, check, wrapped, disablers, file_end,
                   disablers_in_scope, file_level_disablers, doc, pc, ctl>>

\* Files without directives.
CliAlphabet == [comments |-> {}, inlines |-> {}, headers |-> {}]

\* robotidy started with or without --overwrite / --no-overwrite, --check
\* and --startline 2.
InitCli ==
    /\ overwrite \in {<<>>, <<TRUE>>, <<FALSE>>}
    /\ check \in BOOLEAN
    /\ config_overwrite = <<>>
    /\ start_line \in {None, 2}
    /\ end_line = None
    /\ disablers = NewDisablersInFile
    /\ file_end = None
    /\ disablers_in_scope = <<>>
    /\ file_level_disablers = FALSE
    /\ doc = <<>>
    /\ pc = 0
    /\ ctl = <<>>
    /\ phase = "cli"
    /\ wrapped = <<>>

NextCli == Cli \/ ParseLine(CliAlphabet, MaxCliLen) \/ Visit

SpecCli == InitCli /\ [][NextCli]_vars

\* C13: once cli has settled the options, Config.overwrite is the explicit
\* --overwrite / --no-overwrite value when one was given, and otherwise the
\* negation of --check: False with --check, True without.
C13_EffectiveOverwrite ==
    phase # "cli" =>
        /\ overwrite = <<TRUE>> => config_overwrite = <<TRUE>>
        /\ overwrite = <<FALSE>> => config_overwrite = <<FALSE>>
        /\ overwrite = <<>> /\ check => config_overwrite = <<FALSE>>
        /\ overwrite = <<>> /\ ~check => config_overwrite = <<TRUE>>

\* A finished run with --check and no overwrite flag: files are not
\* overwritten.
C13_Witness ==
    /\ Done
    /\ overwrite = <<>>
    /\ check
    /\ config_overwrite = <<FALSE>>

\* ------------------------------------------------------------------ branches
\* The header line of the branch that follows the branch whose header is
\* line h (ELSE / ELSE IF after IF, EXCEPT after TRY); None after the last.
NextSibling(d, h) ==
    LET j == Scan(d, h + 1, 0, {"else", "except", "end"})
    IN  IF j <= Len(d) /\ d[j].kind \in {"else", "except"} THEN j ELSE None

\* The intervals registered for t that start at line a.
StartingAt(reg, t, a) ==
    {Registered(reg, t).lines[n] : n \in 1..Len(Registered(reg, t).lines)}
        \cap {<<a, e>> : e \in 0..(Len(doc) + 1)}

\* C14: after traversal, an unmatched indented off at line a of a branch of
\* an IF or a TRY that another branch follows is registered as the interval
\* from a to the line before the next branch, and as no other interval.
C14_BranchClose ==
    Done => \A a \in Lines, t \in Transformers :
                LET h == ScopeOf(doc, a)
                IN  /\ NestedOff(doc, a, t)
                    /\ doc[h].kind \in {"if", "else", "try", "except"}
                    /\ NextSibling(doc, h) # None
                    => StartingAt(disablers, t, a) = {<<a, NextSibling(doc, h) - 1>>}

\* The same statement for the branches visit_Try's loop closes: an EXCEPT
\* branch that another branch follows.
C14_MiddleTryBranch ==
    Done => \A a \in Lines, t \in Transformers :
                LET h == ScopeOf(doc, a)
                IN  /\ NestedOff(doc, a, t)
                    /\ doc[h].kind = "except"
                    /\ NextSibling(doc, h) # None
                    => StartingAt(disablers, t, a) = {<<a, NextSibling(doc, h) - 1>>}

C14_MiddleTryBranchWitness ==
    /\ Done
    /\ \E a \in Lines :
           /\ NestedOff(doc, a, ALL_TRANSFORMERS)
           /\ doc[ScopeOf(doc, a)].kind = "except"
           /\ NextSibling(doc, ScopeOf(doc, a)) # None

\* How often the interval iv occurs in a list of intervals.
RECURSIVE Count(_, _)
Count(lines, iv) ==
    IF lines = <<>> THEN 0
    ELSE Count(Tail(lines), iv) + (IF Head(lines) = iv THEN 1 ELSE 0)

\* Statement i, directly in a branch of a TRY, carries a trailing off for t.
InlineOffInTry(d, i, t) ==
    /\ InlineOff(d, i, t)
    /\ d[ScopeOf(d, i)].kind \in {"try", "except"}

RegisteredOnce(d, reg, i, t) ==
    Count(Registered(reg, t).lines, <<i, StmtEnd(d, i)>>) = 1

\* C15: after traversal, the trailing off of a statement in any branch of a
\* TRY, the first and the last included, has been registered exactly once
\* for each of its targets.
C15_EachBranchOnce ==
    Done => \A i \in Lines, t \in Transformers :
                InlineOffInTry(doc, i, t) => RegisteredOnce(doc, disablers, i, t)

\* The same statement for the branches between the first and the last.
C15_MiddleBranchOnce ==
    Done => \A i \in Lines, t \in Transformers :
                /\ InlineOffInTry(doc, i, t)
                /\ doc[ScopeOf(doc, i)].kind = "except"
                /\ NextSibling(doc, ScopeOf(doc, i)) # None
                => RegisteredOnce(doc, disablers, i, t)

C15_MiddleBranchOnceWitness ==
    /\ Done
    /\ \E i \in Lines :
           /\ InlineOffInTry(doc, i, Rule1)
           /\ doc[ScopeOf(doc, i)].kind = "except"
           /\ NextSibling(doc, ScopeOf(doc, i)) # None

\* What visit_Try does for a TRY directly in a test case: the first branch
\* is walked twice when another branch follows it and the last of several
\* branches never, so a trailing off is registered twice in the one and not
\* at all in the other.
C15_FirstTwiceLastNever ==
    Done => \A i \in Lines, t \in Transformers :
                InlineOffInTry(doc, i, t) /\ Len(Enclosing(doc, i)) = 3 =>
                    LET h == ScopeOf(doc, i)
                        last == NextSibling(doc, h) = None
                    IN  Count(Registered(disablers, t).lines, <<i, StmtEnd(doc, i)>>) =
                            CASE doc[h].kind = "try" /\ ~last -> 2
                              [] doc[h].kind = "except" /\ last -> 0
                              [] OTHER -> 1

\* ------------------------------------------------------------------- headers
\* Files whose section headers carry "# robotidy: off", "on", "off=Rule1" or
\* "off=Rule1,RuleX", with wildcard on / off comments at column 0.
HeaderAlphabet ==
    [comments |-> {Line("comment", Match("off", FALSE, <<>>), 0),
                   Line("comment", Match("on", FALSE, <<>>), 0)},
     inlines |-> {},
     headers |-> {Match("off", FALSE, <<>>), Match("on", FALSE, <<>>),
                  Match("off", TRUE, <<Rule1>>), Match("off", TRUE, <<Rule1, RuleX>>)}]

NextHeader == ParseLine(HeaderAlphabet, MaxHeaderLen) \/ Visit

SpecHeader == Init /\ [][NextHeader]_vars

\* The visitor's step on a section header.
HeaderStep ==
    /\ Visiting
    /\ doc[pc].kind \in {"header", "cheader"}
    /\ pc' # pc

\* The targets of the Disable a header line carries; none when it carries an
\* Enable or no directive.
HeaderTargets(l) == IF l.match.disabler = "off" THEN Targets(l.match) ELSE {}

\* C16: the step on a section header at line h adds h to the header-disabled
\* set of each target of its Disable and changes nothing else: no interval,
\* no whole-file flag, no pending start, and nothing at all for an Enable;
\* after traversal is_header_disabled(t, h) is true exactly for the targets
\* named, and for every t when the Disable is wildcard.
C16_HeaderDisable ==
    /\ [][HeaderStep =>
             /\ disablers_in_scope' = disablers_in_scope
             /\ file_level_disablers' = file_level_disablers
             /\ DOMAIN disablers' = DOMAIN disablers \cup HeaderTargets(doc[pc])
             /\ \A t \in DOMAIN disablers' :
                    /\ Registered(disablers', t).lines = Registered(disablers, t).lines
                    /\ Registered(disablers', t).disabled_whole
                           = Registered(disablers, t).disabled_whole
                    /\ Registered(disablers', t).disabled_headers
                           = Registered(disablers, t).disabled_headers
                                 \cup (IF t \in HeaderTargets(doc[pc]) THEN {pc} ELSE {})
         ]_vars
    /\ [](Done =>
            \A h \in Lines, t \in Queried :
                doc[h].kind \in {"header", "cheader"} =>
                    (is_header_disabled(disablers, t, h)
                        <=> \/ t \in HeaderTargets(doc[h])
                            \/ ALL_TRANSFORMERS \in HeaderTargets(doc[h])))

\* A traversed document with "off=Rule1" on one header and "on" on another,
\* read while a wildcard off is pending in no frame.
C16_Witness ==
    /\ Done
    /\ \E h \in Lines, g \in Lines :
           /\ doc[h].kind = "header" /\ doc[h].match = Match("off", TRUE, <<Rule1>>)
           /\ doc[g].kind = "header" /\ doc[g].match.disabler = "on"
           /\ is_header_disabled(disablers, Rule1, h)
           /\ ~is_header_disabled(disablers, RuleX, h)
           /\ ~is_header_disabled(disablers, Rule1, g)
    /\ disablers[Rule1].lines = <<>>
    /\ ~disablers[Rule1].disabled_whole

\* ------------------------------------------------------- the full-match scan
\* A caller registers an interval for Rule1.
AddDisabler ==
    /\ phase = "api"
    /\ Len(Registered(disablers, Rule1).lines) < MaxScanIntervals
    /\ \E s \in 1..MaxScanLine, e \in 1..MaxScanLine :
           /\ s <= e
           /\ disablers' = add_disabler(disablers, Rule1, s, e, FALSE)
    /\ UNCHANGED <<config, wrapped, file_end, disablers_in_scope, file_level_disablers,
                   doc, pc, ctl, phase>>

\* DisablersInFile.sort_disablers, after the last registration.
SortRegistered ==
    /\ phase = "api"
    /\ disablers' = sort_disablers(disablers)
    /\ phase' = "sorted"
    /\ UNCHANGED <<config, wrapped, file_end, disablers_in_scope, file_level_disablers,
                   doc, pc, ctl>>

\* Nodes handed to the wrapper: every lineno / end_lineno pair, those with
\* end_lineno < lineno included.
ScanNodes == {Node(s, f) : s \in 1..MaxScanLine, f \in 1..MaxScanLine}

\* A Rule1 transformer visits a node with the sorted registry.
QueryNode ==
    /\ phase = "sorted"
    /\ \E node \in ScanNodes : wrapped' = <<skip_if_disabled(disablers, Rule1, node)>>
    /\ UNCHANGED <<config, disablers, file_end, disablers_in_scope,
                   file_level_disablers, doc, pc, ctl, phase>>

InitScan ==
    /\ start_line = None
    /\ end_line = None
    /\ Defaults
    /\ disablers = NewDisablersInFile
    /\ file_end = None
    /\ disablers_in_scope = <<>>
    /\ file_level_disablers = FALSE
    /\ doc = <<>>
    /\ pc = 0
    /\ ctl = <<>>
    /\ phase = "api"
    /\ wrapped = <<>>

NextScan == AddDisabler \/ SortRegistered \/ QueryNode

SpecScan == InitScan /\ [][NextScan]_vars

\* Interval n of the list wholly contains the node, whose effective end is
\* max(lineno, end_lineno).
Contains(lines, n, node) ==
    /\ lines[n][1] <= node.lineno
    /\ Max(node.lineno, node.end_lineno) <= lines[n][2]

Overlapping(lines) ==
    \E m \in 1..Len(lines), n \in 1..Len(lines) :
        /\ m < n
        /\ lines[n][1] <= lines[m][2]
        /\ lines[m][2] # lines[n][2]

Sorted(lines) == \A n \in 1..(Len(lines) - 1) : lines[n][1] <= lines[n + 1][1]

Intervals == {iv \in (1..MaxScanLine) \X (1..MaxScanLine) : iv[1] <= iv[2]}

SortedLists ==
    {l \in UNION {[1..k -> Intervals] : k \in 0..MaxScanIntervals} : Sorted(l)}

\* C17 as stated: among the start-sorted lists the registrations can build,
\* one with two overlapping intervals of different end lines makes the
\* full-match scan answer "not disabled" for a node that one of its
\* intervals wholly contains.
C17_ScanMisses ==
    phase = "api" =>
        \E l \in SortedLists, node \in ScanNodes :
            /\ Overlapping(l)
            /\ \E n \in 1..Len(l) : Contains(l, n, node)
            /\ ~LinesNodeDisabled([NewDisabledLines EXCEPT !.lines = l], node, TRUE)

\* C17: on every list sort_disablers has sorted, overlapping intervals with
\* different end lines included, the wrapper's full-match query reports the
\* node disabled exactly when some interval of the list wholly contains it.
C17_ScanExact ==
    phase = "sorted" /\ wrapped # <<>> =>
        LET lines == Registered(disablers, Rule1).lines
        IN  /\ Sorted(lines)
            /\ Skipped(wrapped[1]) <=> \E n \in 1..Len(lines) : Contains(lines, n, wrapped[1].node)
            /\ ~Skipped(wrapped[1]) => CalledOnce(wrapped[1])

\* A sorted list whose first interval starts first, overlaps the second and
\* ends too early for the node, which the second interval contains: the scan
\* passes over the first and reports the node disabled.
C17_Witness ==
    /\ phase = "sorted"
    /\ wrapped # <<>>
    /\ Skipped(wrapped[1])
    /\ LET lines == Registered(disablers, Rule1).lines
       IN  /\ Len(lines) >= 2
           /\ Overlapping(lines)
           /\ lines[1][2] < wrapped[1].node.end_lineno
           /\ ~Contains(lines, 1, wrapped[1].node)
           /\ Contains(lines, 2, wrapped[1].node)

\* ------------------------------------------------------- the whole-file flag
\* A full-line off for t at line a of the first section.
OffInFirst(d, a, t) == a <= SectionEnd(d, 1) /\ FullLine(d, a, "off", t)

NoEnableUpTo(d, a, last, t) == \A m \in (a + 1)..last : ~FullLine(d, m, "on", t)

\* C18 as stated: the flag of a target is true only with a Disable for it in
\* the leading comment section and no Enable for it anywhere later in the
\* file.
C18_NoLaterEnable ==
    Done => \A t \in Transformers :
                Registered(disablers, t).disabled_whole
                    => /\ FirstIsCommentSection(doc)
                       /\ \E a \in Lines : /\ OffInFirst(doc, a, t)
                                           /\ NoEnableUpTo(doc, a, Len(doc), t)

\* C18: after traversal, the whole-file flag of a target is true exactly
\* when the first section is a comment section holding a full-line Disable
\* for the target that no later full-line Enable for it within that section
\* follows; an Enable of a later section does not clear it.
C18_WholeFlag ==
    Done => \A t \in Transformers :
                Registered(disablers, t).disabled_whole
                    <=> /\ FirstIsCommentSection(doc)
                        /\ \E a \in Lines :
                               /\ OffInFirst(doc, a, t)
                               /\ NoEnableUpTo(doc, a, SectionEnd(doc, 1), t)

\* The flag of Rule1 is set although a later section holds an Enable for it.
C18_Witness ==
    /\ Done
    /\ FirstIsCommentSection(doc)
    /\ disablers[ALL_TRANSFORMERS].disabled_whole = FALSE
    /\ Registered(disablers, Rule1).disabled_whole
    /\ \E m \in Lines : m > SectionEnd(doc, 1) /\ FullLine(doc, m, "on", Rule1)

\* --------------------------------------------------------------- scope frames
\* The visit_* calls in progress that have pushed a frame and not yet popped
\* it: all but visit_Try between two of its branches.
RECURSIVE FramesOf(_)
FramesOf(calls) ==
    IF calls = <<>> THEN 0
    ELSE FramesOf(Pop(calls)) + (IF Top(calls).kind = "tail" THEN 0 ELSE 1)

\* The end line of the block whose visit is about to pop its frame.
ClosingEnd ==
    LET c == Top(ctl)
    IN  CASE c.kind = "section" -> SectionEnd(doc, c.line)
          [] c.kind = "try" -> EndLine(doc, c.line)
          [] c.kind = "tailbody" -> NextBranch(doc, c.line) - 1
          [] OTHER -> BlockEnd(doc, c.line)

RepeatComments ==
    {Line("comment", m, i) :
        m \in {Match("off", FALSE, <<>>), Match("on", FALSE, <<>>),
               Match("off", TRUE, <<Rule1>>), Match("on", TRUE, <<Rule1>>)},
        i \in {0, Indent}}

\* Files whose first test case opens with four full-line directives, the
\* first of them a Disable: the parser has read the section header, the test
\* name and the four comments.
RepeatFiles ==
    {<<Plain("header"), Plain("name"), c1, c2, c3, c4>> :
        c1 \in {c \in RepeatComments : c.match.disabler = "off"},
        c2 \in RepeatComments, c3 \in RepeatComments, c4 \in RepeatComments}

InitRepeat ==
    /\ start_line = None
    /\ end_line = None
    /\ Defaults
    /\ disablers = NewDisablersInFile
    /\ file_end = None
    /\ disablers_in_scope = <<>>
    /\ file_level_disablers = FALSE
    /\ doc \in RepeatFiles
    /\ pc = 0
    /\ ctl = <<>>
    /\ phase = "parse"
    /\ wrapped = <<>>

NextRepeat == ParseLine(Alphabet, MaxRepeatLen) \/ Visit

SpecRepeat == InitRepeat /\ [][NextRepeat]_vars

\* The visitor's step on a full-line Disable ("off") or Enable ("on").
CommentStep(action) ==
    /\ Visiting
    /\ doc[pc].kind = "comment"
    /\ doc[pc].match.disabler = action

\* The frame the comment at pc reads and writes.
Addressed == IF is_line_start(doc[pc]) THEN 1 ELSE Len(disablers_in_scope)

\* No interval of t starts at line b.
NoneStartsAt(reg, t, b) ==
    \A k \in 1..Len(Registered(reg, t).lines) : Registered(reg, t).lines[k][1] # b

\* Lines a < b carry full-line Disables for t that address the same frame,
\* the one at a on a line the visitor walks, with no full-line Enable for t
\* of that frame between them.
RepeatedOff(d, a, b, t) ==
    /\ a < b
    /\ FullLine(d, a, "off", t)
    /\ ~InLastBranch(d, a)
    /\ FullLine(d, b, "off", t)
    /\ FrameOf(d, a) = FrameOf(d, b)
    /\ \A x \in (a + 1)..(b - 1) :
           ~(FullLine(d, x, "on", t) /\ FrameOf(d, x) = FrameOf(d, a))

\* C20: the step on a full-line Disable leaves the registry alone and sets
\* the pending start of each of its targets in the addressed frame to its own
\* line only where none is pending, every other pending start staying as it
\* was; the step on a full-line Enable registers for each of its targets
\* pending in the addressed frame the interval from the pending start to its
\* own line and clears that pending start, nothing else changing; so after
\* traversal no interval starts at the line of a repeated Disable.
C20_RepeatedDisable ==
    /\ [][CommentStep("off") =>
             /\ disablers' = disablers
             /\ Len(disablers_in_scope') = Len(disablers_in_scope)
             /\ \A i \in 1..Len(disablers_in_scope), t \in Queried :
                    Get(disablers_in_scope'[i], t) =
                        IF /\ i = Addressed
                           /\ t \in Targets(doc[pc].match)
                           /\ Get(disablers_in_scope[i], t) = 0
                        THEN pc
                        ELSE Get(disablers_in_scope[i], t)
         ]_vars
    /\ [][CommentStep("on") =>
             /\ Len(disablers_in_scope') = Len(disablers_in_scope)
             /\ \A i \in 1..Len(disablers_in_scope), t \in Queried :
                    LET s == Get(disablers_in_scope[i], t)
                        closes == /\ i = Addressed
                                  /\ t \in Targets(doc[pc].match)
                                  /\ s # 0
                    IN  Get(disablers_in_scope'[i], t) = IF closes THEN 0 ELSE s
             /\ \A t \in Queried :
                    LET s == Get(disablers_in_scope[Addressed], t)
                    IN  Registered(disablers', t).lines =
                            IF t \in Targets(doc[pc].match) /\ s # 0
                            THEN Append(Registered(disablers, t).lines, <<s, pc>>)
                            ELSE Registered(disablers, t).lines
         ]_vars
    /\ [](Done => \A a \in Lines, b \in Lines, t \in Transformers :
                      RepeatedOff(doc, a, b, t) => NoneStartsAt(disablers, t, b))

\* Off, off, on, off for every transformer in a test case: the Enable has
\* registered lines 3..5, from the first Disable, and the Disable after it
\* has opened the interval that the end of the test case closed.
C20_Witness ==
    /\ Done
    /\ RepeatedOff(doc, 3, 4, ALL_TRANSFORMERS)
    /\ FullLine(doc, 5, "on", ALL_TRANSFORMERS)
    /\ FullLine(doc, 6, "off", ALL_TRANSFORMERS)
    /\ \A i \in 3..6 : doc[i].indent = Indent
    /\ Registered(disablers, ALL_TRANSFORMERS).lines = <<<<3, 5>>, <<6, Len(doc)>>>>

\* ------------------------------------------------------- ignored comments
\* Files with comments that disabler_pattern does not match, Enables for one
\* or two named transformers and for all, and the Disables that may precede
\* them.
IgnoredAlphabet ==
    [comments |-> {Line("comment", m, i) :
                      m \in {NoMatch, Match("on", FALSE, <<>>),
                             Match("on", TRUE, <<Rule1>>),
                             Match("on", TRUE, <<Rule1, RuleX>>),
                             Match("off", FALSE, <<>>),
                             Match("off", TRUE, <<Rule1>>)},
                      i \in {0, Indent}},
     inlines |-> {Line("stmt", Match("on", FALSE, <<>>), Indent)},
     headers |-> {}]

NextIgnored == ParseLine(IgnoredAlphabet, MaxIgnoredLen) \/ Visit

SpecIgnored == Init /\ [][NextIgnored]_vars

\* The visitor's step on a Comment that get_disabler does not recognize, or
\* on a statement without a recognized comment.
UnrecognizedStep ==
    /\ Visiting
    /\ doc[pc].kind \in {"comment", "stmt"}
    /\ doc[pc].match = NoMatch

\* The visitor's step on a full-line Enable none of whose targets has a
\* pending start in the addressed frame, or on a trailing Enable.
IdleEnableStep ==
    /\ Visiting
    /\ doc[pc].match.disabler = "on"
    /\ \/ doc[pc].kind = "stmt"
       \/ /\ doc[pc].kind = "comment"
          /\ \A t \in Targets(doc[pc].match) :
                 Get(disablers_in_scope[Addressed], t) = None

\* The full-line Enable at pc closes t: t is one of its targets and has a
\* pending start in the addressed frame.
Closes(t) ==
    /\ t \in Targets(doc[pc].match)
    /\ Get(disablers_in_scope[Addressed], t) # None

\* C21: the step on an unrecognized comment, and the step on an Enable with
\* no pending start for any of its targets, find a frame to read and leave
\* the scope stack, the whole registry (intervals, header sets, whole-file
\* flags) and the file-level marker as they were; the step on a full-line
\* Enable changes the registry entry and the pending start of exactly those
\* of its targets that have a pending start in the addressed frame.
C21_IgnoredComment ==
    /\ [][UnrecognizedStep \/ IdleEnableStep =>
             /\ disablers_in_scope # <<>>
             /\ disablers_in_scope' = disablers_in_scope
             /\ disablers' = disablers
             /\ file_level_disablers' = file_level_disablers
         ]_vars
    /\ [][CommentStep("on") =>
             /\ DOMAIN disablers' = DOMAIN disablers \cup {t \in Queried : Closes(t)}
             /\ \A t \in Queried :
                    /\ ~Closes(t) =>
                           /\ Registered(disablers', t) = Registered(disablers, t)
                           /\ Pending(disablers_in_scope', t)
                                  = Pending(disablers_in_scope, t)
                    /\ Closes(t) =>
                           /\ Registered(disablers', t) # Registered(disablers, t)
                           /\ Get(disablers_in_scope'[Addressed], t) = None
         ]_vars

\* Off=Rule1, an unrecognized comment, then on=Rule1,RuleX in a test case:
\* Rule1 is disabled on lines 3..5 and RuleX has no entry.
C21_Witness ==
    /\ Done
    /\ Len(doc) = 5
    /\ doc[3] = Line("comment", Match("off", TRUE, <<Rule1>>), Indent)
    /\ doc[4] = Line("comment", NoMatch, Indent)
    /\ doc[5] = Line("comment", Match("on", TRUE, <<Rule1, RuleX>>), Indent)
    /\ Registered(disablers, Rule1).lines = <<<<3, 5>>>>
    /\ RuleX \notin DOMAIN disablers

\* ------------------------------------------------ one instance, many files
\* The same RegisterDisablers instance is handed the next source: the parser
\* starts on a new File while the instance keeps every attribute it has.
NextFile ==
    /\ phase = "done"
    /\ doc' = <<>>
    /\ pc' = 0
    /\ phase' = "parse"
    /\ UNCHANGED <<config, wrapped, disablers, file_end, disablers_in_scope,
                   file_level_disablers, ctl>>

\* Files of at most MaxReuseLen lines with a Disable of every kind: full-line
\* for all and for Rule1, trailing, and on a section header.
ReuseAlphabet ==
    [comments |-> {Line("comment", Match("off", FALSE, <<>>), 0),
                   Line("comment", Match("off", TRUE, <<Rule1>>), 0)},
     inlines |-> {Line("stmt", Match("off", TRUE, <<Rule1>>), Indent)},
     headers |-> {Match("off", TRUE, <<Rule1>>)}]

NextReuse == ParseLine(ReuseAlphabet, MaxReuseLen) \/ Visit \/ NextFile

SpecReuse == Init /\ [][NextReuse]_vars

\* The instance carries the registry of a file it has visited before.
Reused == file_end # None

\* Some line of d carries a directive that names t.
NamedIn(d, t) == \E i \in 1..Len(d) : IsDirective(d[i]) /\ Names(d[i], t)

\* C22: when visit_File starts, on a first or on a later file, no scope frame
\* is left over, and its first step leaves the instance exactly as it leaves
\* a new one: the registry holds the window's intervals for this file and
\* nothing else, the file-level marker is off and the scope stack is empty;
\* the window never changes.  So once visit_File has returned, every entry,
\* interval, header line and whole-file flag of the registry comes from the
\* document just visited.
C22_FreshPerFile ==
    /\ [](phase = "parse" => disablers_in_scope = <<>> /\ ctl = <<>>)
    /\ [][phase = "parse" /\ phase' = "visit" =>
             /\ disablers' = parse_global_disablers(NewDisablersInFile, start_line,
                                                    end_line, Len(doc))
             /\ file_end' = Len(doc)
             /\ file_level_disablers' = FALSE
             /\ disablers_in_scope' = <<>>
             /\ ctl' = <<>>
             /\ pc' = 1
         ]_vars
    /\ [][start_line' = start_line /\ end_line' = end_line]_vars
    /\ [](Done =>
            /\ file_end = Len(doc)
            /\ \A t \in DOMAIN disablers :
                  /\ t # ALL_TRANSFORMERS => NamedIn(doc, t)
                  /\ disablers[t].disabled_headers \subseteq
                         {h \in Lines : doc[h].kind \in {"header", "cheader"}
                                        /\ Names(doc[h], t)}
                  /\ disablers[t].disabled_whole =>
                         \E a \in Lines : OffInFirst(doc, a, t)
                  /\ \A k \in 1..Len(disablers[t].lines) :
                         /\ disablers[t].lines[k][1] \in Lines
                         /\ disablers[t].lines[k][2] \in Lines
                         /\ NamedIn(doc, t))

\* The parser has read a second file without directives while the instance
\* still holds what a first file left: an entry for Rule1 with an interval
\* and the whole-file flag of all.
C22_Witness ==
    /\ phase = "parse"
    /\ Reused
    /\ Complete(doc)
    /\ \A i \in Lines : ~IsDirective(doc[i])
    /\ Rule1 \in DOMAIN disablers
    /\ disablers[Rule1].lines # <<>>
    /\ disablers[ALL_TRANSFORMERS].disabled_whole

\* ------------------------------------------------- the order of visit_File
\* Files of at most MaxOrderLen lines formatted without a window, with
\* --startline 2 alone or with --startline 2 --endline 3.
InitOrder ==
    /\ \E w \in {<<None, None>>, <<2, None>>, <<2, 3>>} :
           start_line = w[1] /\ end_line = w[2]
    /\ Defaults
    /\ Constructed

NextOrder == ParseLine(Alphabet, MaxOrderLen) \/ Visit

SpecOrder == InitOrder /\ [][NextOrder]_vars

IsPrefix(a, b) == Len(a) <= Len(b) /\ SubSeq(b, 1, Len(a)) = a

\* C23: the first step of visit_File leaves a registry that holds the
\* window's intervals and nothing else, before any line is evaluated; while
\* the document is walked these stay at the front of the wildcard list and
\* every step only appends to the lists; the step that ends visit_File is the
\* sort, taken when the walk is over and every frame is closed, and nothing
\* changes the registry after it; so when visit_File has returned every
\* entry's intervals are in non-decreasing order of start line.
C23_SortedLast ==
    /\ [][phase = "parse" /\ phase' = "visit" =>
             /\ DOMAIN disablers' = {ALL_TRANSFORMERS}
             /\ disablers'[ALL_TRANSFORMERS].lines = Synthesized'[ALL_TRANSFORMERS].lines
             /\ pc' = 1
         ]_vars
    /\ [](phase = "visit" =>
             IsPrefix(Synthesized[ALL_TRANSFORMERS].lines,
                      disablers[ALL_TRANSFORMERS].lines))
    /\ [][phase = "visit" /\ phase' = "visit" =>
             \A t \in Queried :
                 IsPrefix(Registered(disablers, t).lines, Registered(disablers', t).lines)
         ]_vars
    /\ [][phase = "visit" /\ phase' = "done" =>
             /\ pc > Len(doc)
             /\ disablers_in_scope = <<>>
             /\ disablers' = sort_disablers(disablers)
         ]_vars
    /\ [][phase = "done" => disablers' = disablers]_vars
    /\ [](Done => \A t \in DOMAIN disablers : Sorted(disablers[t].lines))

\* With --startline 2: off=Rule1 at line 3 of a five-line file, closed by
\* the end of the test case after the trailing off=Rule1 of line 4 was
\* registered; the sort has put (3, 5) before (4, 4), and the wildcard list
\* holds the window's interval.
C23_Witness ==
    /\ Done
    /\ start_line = 2
    /\ end_line = None
    /\ disablers[ALL_TRANSFORMERS].lines = <<<<1, 1>>, <<3, 5>>>>
    /\ Registered(disablers, Rule1).lines = <<<<3, 5>>, <<4, 4>>>>

\* ------------------------------------------------- where intervals come from
\* The end line of the scope whose frame the full-line directive at line a
\* addresses.
ScopeEnd(d, a) ==
    IF FrameOf(d, a) = SectionOf(d, a)
    THEN SectionEnd(d, FrameOf(d, a))
    ELSE OwnEnd(d, FrameOf(d, a))

\* (a) a Disable for t at line iv[1] matched by a later Enable for t of the
\* same frame at line iv[2].
FromPair(d, iv, t) ==
    /\ iv[1] \in 1..Len(d)
    /\ iv[2] \in 1..Len(d)
    /\ iv[1] < iv[2]
    /\ FullLine(d, iv[1], "off", t)
    /\ FullLine(d, iv[2], "on", t)
    /\ FrameOf(d, iv[1]) = FrameOf(d, iv[2])

\* (b) a Disable for t at line iv[1] still pending when its scope closes at
\* line iv[2].
FromScopeExit(d, iv, t) ==
    /\ iv[1] \in 1..Len(d)
    /\ FullLine(d, iv[1], "off", t)
    /\ iv[2] = ScopeEnd(d, iv[1])

\* (c) one of the intervals synthesized from the window.
FromWindow(iv, t) ==
    /\ t = ALL_TRANSFORMERS
    /\ \E n \in 1..Len(Synthesized[ALL_TRANSFORMERS].lines) :
           Synthesized[ALL_TRANSFORMERS].lines[n] = iv

\* A trailing Disable for t on the statement of lines iv[1]..iv[2].
FromInline(d, iv, t) ==
    /\ iv[1] \in 1..Len(d)
    /\ InlineOff(d, iv[1], t)
    /\ iv[2] = StmtEnd(d, iv[1])

\* What a step has appended to the intervals of t.
Appended(t) ==
    SubSeq(Registered(disablers', t).lines,
           Len(Registered(disablers, t).lines) + 1,
           Len(Registered(disablers', t).lines))

FullLineStep == CommentStep("off") \/ CommentStep("on")

\* The frames below the innermost one.
EnclosingFrames(scope) == SubSeq(scope, 1, Len(scope) - 1)

\* C25 as stated: the step on a full-line directive, at column 0 or indented,
\* leaves the frame of every enclosing scope as it was.
C25_InnermostOnly ==
    [][FullLineStep =>
          EnclosingFrames(disablers_in_scope') = EnclosingFrames(disablers_in_scope)
      ]_vars

\* C25, amended: a frame is pushed with no pending start; the step on an
\* indented full-line directive changes no frame but the innermost one, and
\* an indented Enable registers nothing for a target that is not pending in
\* the innermost frame, whatever is pending in the frames around it; the step
\* on a full-line directive at column 0 changes no frame but the outermost
\* one, that of the section, however deep the comment lies.
C25_AddressedFrame ==
    /\ [][Len(disablers_in_scope') > Len(disablers_in_scope) =>
             /\ Top(disablers_in_scope') = NewFrame
             /\ EnclosingFrames(disablers_in_scope') = disablers_in_scope
         ]_vars
    /\ [][FullLineStep /\ doc[pc].indent > 0 =>
             /\ EnclosingFrames(disablers_in_scope')
                    = EnclosingFrames(disablers_in_scope)
             /\ \A t \in Queried :
                    Get(Top(disablers_in_scope), t) = None
                        => Registered(disablers', t) = Registered(disablers, t)
         ]_vars
    /\ [][FullLineStep /\ doc[pc].indent = 0 =>
             /\ Len(disablers_in_scope') = Len(disablers_in_scope)
             /\ Tail(disablers_in_scope') = Tail(disablers_in_scope)
             /\ \A t \in Queried :
                    Get(disablers_in_scope[1], t) = None
                        => Registered(disablers', t) = Registered(disablers, t)
         ]_vars

\* In a test case, "# robotidy: off" at column 0 on line 3 and indented on
\* line 4: the first is pending in the section's frame, the second in the
\* test case's.
C25_Witness ==
    /\ phase = "visit"
    /\ Len(disablers_in_scope) = 2
    /\ Len(doc) >= 4
    /\ doc[2].kind = "name"
    /\ doc[3].indent = 0
    /\ doc[4].indent = Indent
    /\ Get(disablers_in_scope[1], ALL_TRANSFORMERS) = 3
    /\ Get(disablers_in_scope[2], ALL_TRANSFORMERS) = 4

\* ------------------------------------------------------------- termination
\* Files whose first test case opens with a TRY, with wildcard Disables and
\* Enables at column 0 and indented.
LiveAlphabet ==
    [comments |-> {Line("comment", Match(d, FALSE, <<>>), i) :
                      d \in {"off", "on"}, i \in {0, Indent}},
     inlines |-> {},
     headers |-> {}]

NextLive == ParseLine(LiveAlphabet, MaxLiveLen) \/ Visit

\* The visitor is one sequential call: once visit_File has started, it keeps
\* taking its next step until it returns.
SpecLive == InitTry /\ [][NextLive]_vars /\ WF_vars(Visit)

\* visit_Try is between two branches of the chain, or inside its while loop.
InTryChain == ctl # <<>> /\ Top(ctl).kind \in {"tail", "tailbody"}

\* C26: while visit_File runs, the scope stack holds a frame whenever a
\* visit_* call is in progress, so a directive comment finds the frame it
\* indexes and close_disabler a frame to pop; the visitor always has a next
\* step to take; each turn of the loop over a TRY's chain moves tail to a
\* later branch; and visit_File returns.
C26_Terminates ==
    /\ [](phase = "visit" /\ ctl # <<>> => disablers_in_scope # <<>>)
    /\ [](phase = "visit" => ENABLED Visit)
    /\ [][InTryChain /\ Top(ctl).kind = "tailbody" /\ ctl' # ctl =>
             /\ Top(ctl').kind = "tail"
             /\ Top(ctl').line > Top(ctl).line
             /\ Top(ctl').line <= Len(doc)
         ]_vars
    /\ (phase = "visit" ~> phase = "done")

\* visit_File has returned from a TRY with three branches whose first branch
\* holds "# robotidy: off" at column 0, read through frame index 0.
C26_Witness ==
    /\ Done
    /\ Len(doc) >= 7
    /\ doc[4] = Line("comment", Match("off", FALSE, <<>>), 0)
    /\ NextBranch(doc, 3) # None
    /\ NextBranch(doc, NextBranch(doc, 3)) # None

====
